---- MODULE Spec2Model ----
(***************************************************************************)
(* Pairwise-comparison kernel of the expert-evaluation system:             *)
(*   - dynamic_scale_interface_complete.py : one elicitation session       *)
(*     (DynamicScaleInterface), variable dsi;                              *)
(*   - gui/app.py : ComparisonPanel, a session per pair of alternatives    *)
(*     and the list of recorded comparisons, variable cp;                  *)
(*   - gui/calculations.py : one call of a function of the module,        *)
(*     variable calc;                                                      *)
(*   - gui/app.py : InputPanel, variable inp.                              *)
(* Floating-point values are modelled by exact reals: rationals n/d, and   *)
(* the two irrational scale families kept in closed form; the consistency  *)
(* functions also meet the IEEE values inf, -inf and nan.                  *)
(***************************************************************************)
EXTENDS Integers, Sequences, FiniteSets, TLC

VARIABLES prog, dsi, mirror, cp, cp_mirror, calc, inp, last, events

vars == <<prog, dsi, mirror, cp, cp_mirror, calc, inp, last, events>>

----------------------------------------------------------------------------
(* Exact arithmetic.                                                       *)

Abs(x) == IF x < 0 THEN -x ELSE x

RECURSIVE GCD(_, _)
GCD(a, b) == IF b = 0 THEN a ELSE GCD(b, a % b)

\* The rational n/d in lowest terms with a positive denominator.
Rat(n, d) ==
    LET g == GCD(Abs(n), Abs(d))
        s == IF d < 0 THEN -1 ELSE 1
    IN  IF g = 0 THEN [n |-> 0, d |-> 0]
        ELSE [n |-> (s * n) \div g, d |-> (s * d) \div g]

RInt(k) == Rat(k, 1)
RAdd(a, b) == Rat(a.n * b.d + b.n * a.d, a.d * b.d)
RSub(a, b) == Rat(a.n * b.d - b.n * a.d, a.d * b.d)
RMul(a, b) == Rat(a.n * b.n, a.d * b.d)
RDiv(a, b) == Rat(a.n * b.d, a.d * b.n)
RNeg(a) == Rat(-a.n, a.d)
RLt(a, b) == a.n * b.d < b.n * a.d
RLe(a, b) == a.n * b.d <= b.n * a.d

RECURSIVE IPow(_, _)
IPow(b, e) == IF e = 0 THEN 1 ELSE b * IPow(b, e - 1)

\* A real number: fam = "rat" is the rational q; fam = "pow" is 9^q;
\* fam = "dodd" is exp(atanh(q * sqrt(3))).  Values that are rational are
\* always kept in the "rat" family, so equal reals have equal records.
Real(q) == [fam |-> "rat", q |-> q]

Pow9(q) ==
    IF q.d = 1 \/ q.d = 2
    THEN LET m == (2 * q.n) \div q.d
         IN  IF m >= 0 THEN Real(Rat(IPow(3, m), 1))
             ELSE Real(Rat(1, IPow(3, -m)))
    ELSE [fam |-> "pow", q |-> q]

ExpAtanhSqrt3(q) ==
    IF q.n = 0 THEN Real(RInt(1)) ELSE [fam |-> "dodd", q |-> q]

IsZero(v) == v.fam = "rat" /\ v.q.n = 0

\* 1 / v
Recip(v) ==
    CASE v.fam = "rat" -> Real(RDiv(RInt(1), v.q))
      [] v.fam = "pow" -> Pow9(RNeg(v.q))
      [] v.fam = "dodd" -> ExpAtanhSqrt3(RNeg(v.q))

\* v > 1, v < 1
GtOne(v) ==
    CASE v.fam = "rat" -> RLt(RInt(1), v.q)
      [] OTHER -> v.q.n > 0
LtOne(v) ==
    CASE v.fam = "rat" -> RLt(v.q, RInt(1))
      [] OTHER -> v.q.n < 0

----------------------------------------------------------------------------
(* dynamic_scale_interface_complete.py                                     *)

PREF ==
    <<"Equally", "Weakly or slightly", "Moderately", "Moderately plus",
      "Strongly", "Strongly plus", "Very strongly", "Very, very strongly",
      "Extremely">>

LESS_MORE == [i \in 0..2 |-> <<"Less", "More", "Not sure">>[i + 1]]

\* Scale tokens are the sequences of their digits: '259' is <<2, 5, 9>>.
GRADUAL_SCALE ==
    [k \in 2..8 |->
        CASE k = 2 -> <<2, 5>>
          [] k = 3 -> <<2, 5, 9>>
          [] k = 4 -> <<3, 5, 7, 9>>
          [] k = 5 -> <<2, 3, 5, 7, 9>>
          [] k = 6 -> <<2, 3, 4, 5, 7, 9>>
          [] k = 7 -> <<2, 3, 4, 5, 6, 7, 9>>
          [] k = 8 -> <<2, 3, 4, 5, 6, 7, 8, 9>>]

S0Token == <<0>>
Coarse == <<2, 5, 9>>
Medium1 == <<2, 3, 4, 5, 9>>
Medium2 == <<2, 5, 6, 7, 9>>
Medium3 == <<2, 5, 8, 9>>
MediumTokens == {Medium1, Medium2, Medium3}

ScaleTypes == 1..5

\* The Ma-Zheng transform written 9 / (9 - 1 + data).
integer_by_scale_ma_zheng_down(scale_type, data) ==
    CASE scale_type = 2 ->
            Real(RDiv(RAdd(Rat(1, 2), RMul(RSub(data, RInt(1)), Rat(1, 20))),
                      RSub(Rat(1, 2), RMul(RSub(data, RInt(1)), Rat(1, 20)))))
      [] scale_type = 3 -> Pow9(RDiv(RSub(data, RInt(1)), RInt(8)))
      [] scale_type = 4 -> Real(RDiv(RInt(9), RAdd(RInt(8), data)))
      [] scale_type = 5 -> ExpAtanhSqrt3(RDiv(RSub(data, RInt(1)), RInt(14)))
      [] OTHER -> Real(data)

\* The five scale transforms; data is a rational grade.
integer_by_scale(scale_type, data) ==
    CASE scale_type = 2 ->
            Real(RDiv(RAdd(Rat(1, 2), RMul(RSub(data, RInt(1)), Rat(1, 20))),
                      RSub(Rat(1, 2), RMul(RSub(data, RInt(1)), Rat(1, 20)))))
      [] scale_type = 3 -> Pow9(RDiv(RSub(data, RInt(1)), RInt(8)))
      [] scale_type = 4 -> Real(RDiv(RInt(9), RSub(RInt(10), data)))
      [] scale_type = 5 -> ExpAtanhSqrt3(RDiv(RSub(data, RInt(1)), RInt(14)))
      [] OTHER -> Real(data)

in_range(value, min_val, max_val) == min_val <= value /\ value <= max_val

\* 1.5 + (grad - 0.5) * (9.5 - 1.5) / k
GradeAt(grad, k) ==
    RAdd(Rat(3, 2),
         RDiv(RMul(RSub(RInt(grad), Rat(1, 2)), RSub(Rat(19, 2), Rat(3, 2))),
              RInt(k)))

\* str.index: the 1-based position of the first occurrence of x.
IndexOf(seq, x) ==
    CHOOSE i \in 1..Len(seq) : seq[i] = x /\ \A j \in 1..(i - 1) : seq[j] # x

\* The panels a session shows, each with its hint and background colour.
StartPanels ==
    {[hint |-> LESS_MORE[0], bg |-> "red"], [hint |-> LESS_MORE[1], bg |-> "red"]}

is_grouped(scale_str, pos) ==
    \/ scale_str = Medium1 /\ pos > 3
    \/ scale_str = Medium2 /\ ~in_range(pos, 2, 4)
    \/ scale_str = Medium3 /\ pos < 3

build_scale(s, scale_str) ==
    IF s.reverse = -1
    THEN [s EXCEPT !.panels = StartPanels]
    ELSE LET li == Len(scale_str)
             indicator == [hint |-> LESS_MORE[1 - s.reverse], bg |-> "#f0f0f0"]
             pin(idx) ==
                 LET grade == scale_str[idx]
                     pos == IndexOf(scale_str, grade)
                 IN  IF scale_str \in MediumTokens
                     THEN IF is_grouped(scale_str, pos) /\ s.scale_type_var # 1
                          THEN [hint |-> PREF[grade], bg |-> "#f0f0f0"]
                          ELSE [hint |-> PREF[grade], bg |-> "red"]
                     ELSE [hint |-> PREF[grade], bg |-> "red"]
         IN  [s EXCEPT !.panels = {indicator} \cup {pin(idx) : idx \in 1..li}]

\* FormClose without the inversion for Less.
close_window_no_inversion(s) ==
    LET transformed == integer_by_scale(s.scale_type_var, s.res.q)
        res1 == IF s.reverse > -1 THEN transformed ELSE s.res
        rel1 == IF s.reverse > -1 THEN s.rel ELSE 0
        type1 == IF s.reverse < 0 THEN 0 ELSE s.scale_type_var
    IN  [s EXCEPT !.res = res1, !.rel = rel1, !.scale_type = type1,
                  !.closed = TRUE]

\* FormClose that inverts for More instead of Less.
close_window_inverts_more(s) ==
    LET transformed == integer_by_scale(s.scale_type_var, s.res.q)
        res1 == IF s.reverse > -1
                THEN IF s.reverse = 1
                     THEN IF ~IsZero(transformed) THEN Recip(transformed)
                          ELSE transformed
                     ELSE transformed
                ELSE s.res
        rel1 == IF s.reverse > -1 THEN s.rel ELSE 0
        type1 == IF s.reverse < 0 THEN 0 ELSE s.scale_type_var
    IN  [s EXCEPT !.res = res1, !.rel = rel1, !.scale_type = type1,
                  !.closed = TRUE]

\* FormClose: transform the working value, invert it for Less.
close_window(s) ==
    LET transformed == integer_by_scale(s.scale_type_var, s.res.q)
        res1 == IF s.reverse > -1
                THEN IF s.reverse = 0
                     THEN IF ~IsZero(transformed) THEN Recip(transformed)
                          ELSE transformed
                     ELSE transformed
                ELSE s.res
        rel1 == IF s.reverse > -1 THEN s.rel ELSE 0
        type1 == IF s.reverse < 0 THEN 0 ELSE s.scale_type_var
    IN  [s EXCEPT !.res = res1, !.rel = rel1, !.scale_type = type1,
                  !.closed = TRUE]

\* grad = 1; for idx, char in enumerate(scale_str, 1): first hint match.
GradOf(scale_str, hint) ==
    IF \E idx \in 1..Len(scale_str) : hint = PREF[scale_str[idx]]
    THEN CHOOSE idx \in 1..Len(scale_str) :
            /\ hint = PREF[scale_str[idx]]
            /\ \A j \in 1..(idx - 1) : hint # PREF[scale_str[j]]
    ELSE 1

\* Less/More selection that sets the direction only while it is unset.
select_direction_once(s, hint) ==
    IF hint \in {LESS_MORE[0], LESS_MORE[1]} /\ s.reverse = -1
    THEN [s EXCEPT !.reverse = IF hint = LESS_MORE[0] THEN 0 ELSE 1]
    ELSE s

\* Less/More selection: a hint of Less or More sets the direction.
select_direction(s, hint) ==
    IF hint \in {LESS_MORE[0], LESS_MORE[1]}
    THEN [s EXCEPT !.reverse = IF hint = LESS_MORE[0] THEN 0 ELSE 1]
    ELSE s

\* First level starting from grade 5 instead of the middle value 5.5.
first_level_grade_five(s) ==
    [s EXCEPT !.rel = 1, !.res = Real(RInt(5)), !.scale_str = Coarse]

\* First level that finalizes as soon as the direction is picked.
first_level_ends_session(s) ==
    close_window([s EXCEPT !.rel = 1, !.res = Real(Rat(11, 2)),
                           !.scale_str = Coarse])

\* First level: from '0' to the coarse scale.
first_level(s) ==
    [s EXCEPT !.rel = 1, !.res = Real(Rat(11, 2)), !.scale_str = Coarse]

\* Second level that leaves the working reliability as it was.
second_level_keeps_rel(s, hint) ==
    LET grad == GradOf(s.scale_str, hint)
        str == CASE grad = 1 -> Medium1
                 [] grad = 2 -> Medium2
                 [] grad = 3 -> Medium3
    IN  [s EXCEPT !.scale_str = str, !.res = Real(GradeAt(grad, 3))]

\* Second level with '23579' typed for '25679'.
second_level_fine_typo(s, hint) ==
    LET grad == GradOf(s.scale_str, hint)
        str == CASE grad = 1 -> Medium1
                 [] grad = 2 -> GRADUAL_SCALE[5]
                 [] grad = 3 -> Medium3
    IN  [s EXCEPT !.scale_str = str, !.rel = 3, !.res = Real(GradeAt(grad, 3))]

\* Second level: a red panel of '259' opens a medium scale.
second_level(s, hint) ==
    LET grad == GradOf(s.scale_str, hint)
        str == CASE grad = 1 -> Medium1
                 [] grad = 2 -> Medium2
                 [] grad = 3 -> Medium3
    IN  [s EXCEPT !.scale_str = str, !.rel = 3, !.res = Real(GradeAt(grad, 3))]

\* A sideways jump that changes the token but keeps the working value.
grouped_click_keeps_value(s, hint) ==
    IF hint = PREF[2] THEN [s EXCEPT !.scale_str = Medium1]
    ELSE IF hint = PREF[5] THEN [s EXCEPT !.scale_str = Medium2]
    ELSE IF hint = PREF[9] THEN [s EXCEPT !.scale_str = Medium3]
    ELSE s

\* A click on a gray panel: a grouped panel, or the Less/More indicator.
grouped_click(s, hint) ==
    IF hint = PREF[2]
    THEN [s EXCEPT !.scale_str = Medium1, !.res = Real(GradeAt(1, 3))]
    ELSE IF hint = PREF[5]
    THEN [s EXCEPT !.scale_str = Medium2, !.res = Real(GradeAt(2, 3))]
    ELSE IF hint = PREF[9]
    THEN [s EXCEPT !.scale_str = Medium3, !.res = Real(GradeAt(3, 3))]
    ELSE s

\* Final selection counting the fine reliability one too high.
final_selection_rel_off_by_one(s, hint) ==
    LET grad0 == GradOf(s.scale_str, hint)
        grad == IF s.scale_str = Medium2 THEN grad0 + 2
                ELSE IF s.scale_str = Medium3 THEN grad0 + 4
                ELSE grad0
        rel1 == IF s.scale_str \in MediumTokens THEN 8
                ELSE Len(s.scale_str) + 1
    IN  [s EXCEPT !.rel = rel1, !.res = Real(GradeAt(grad, rel1))]

\* Final selection without the offsets of '25679' and '2589'.
final_selection_no_offset(s, hint) ==
    LET grad == GradOf(s.scale_str, hint)
        rel1 == IF s.scale_str \in MediumTokens THEN 8 ELSE Len(s.scale_str)
    IN  [s EXCEPT !.rel = rel1, !.res = Real(GradeAt(grad, rel1))]

\* Final selection with the position counted from zero.
final_selection_zero_based(s, hint) ==
    LET grad0 == GradOf(s.scale_str, hint) - 1
        grad == IF s.scale_str = Medium2 THEN grad0 + 2
                ELSE IF s.scale_str = Medium3 THEN grad0 + 4
                ELSE grad0
        rel1 == IF s.scale_str \in MediumTokens THEN 8 ELSE Len(s.scale_str)
    IN  [s EXCEPT !.rel = rel1, !.res = Real(GradeAt(grad, rel1))]

\* Final selection that adds the offset 4 to every token but the first two.
final_selection_offset_everywhere(s, hint) ==
    LET grad0 == GradOf(s.scale_str, hint)
        grad == IF s.scale_str = Medium2 THEN grad0 + 2
                ELSE IF s.scale_str # Medium1 THEN grad0 + 4
                ELSE grad0
        rel1 == IF s.scale_str \in MediumTokens THEN 8 ELSE Len(s.scale_str)
    IN  [s EXCEPT !.rel = rel1, !.res = Real(GradeAt(grad, rel1))]

\* Final selection: the working value and reliability just before FormClose.
final_selection(s, hint) ==
    LET grad0 == GradOf(s.scale_str, hint)
        grad == IF s.scale_str = Medium2 THEN grad0 + 2
                ELSE IF s.scale_str = Medium3 THEN grad0 + 4
                ELSE grad0
        rel1 == IF s.scale_str \in MediumTokens THEN 8 ELSE Len(s.scale_str)
    IN  [s EXCEPT !.rel = rel1, !.res = Real(GradeAt(grad, rel1))]

panel_scale_click(s, panel) ==
    LET hint == panel.hint
        s1 == select_direction(s, hint)
    IN  IF s1.scale_str = S0Token
        THEN LET s2 == first_level(s1) IN build_scale(s2, s2.scale_str)
        ELSE IF s1.scale_str = Coarse /\ panel.bg = "red"
        THEN LET s2 == second_level(s1, hint) IN build_scale(s2, s2.scale_str)
        ELSE IF panel.bg = "#f0f0f0"
        THEN LET s2 == grouped_click(s1, hint) IN build_scale(s2, s2.scale_str)
        ELSE close_window(final_selection(s1, hint))

scale_choice_changed(s, t) ==
    build_scale([s EXCEPT !.scale_type_var = t], s.scale_str)

\* Increase of the gradations that keeps the working value and reliability.
spin_up_click_keeps_working(s) ==
    IF s.reverse > -1 /\ Len(s.scale_str) < 8
    THEN LET str == GRADUAL_SCALE[Len(s.scale_str) + 1]
         IN  build_scale([s EXCEPT !.scale_str = str], str)
    ELSE s

\* Increase of the gradations without the test that a direction is set.
spin_up_click_any_direction(s) ==
    IF Len(s.scale_str) < 8
    THEN LET str == GRADUAL_SCALE[Len(s.scale_str) + 1]
         IN  build_scale([s EXCEPT !.scale_str = str, !.rel = 1,
                                   !.res = Real(Rat(11, 2))], str)
    ELSE s

\* Increase of the gradations that wraps round from eight to two.
spin_up_click_wraps(s) ==
    IF s.reverse > -1
    THEN LET str == IF Len(s.scale_str) < 8
                    THEN GRADUAL_SCALE[Len(s.scale_str) + 1]
                    ELSE GRADUAL_SCALE[2]
         IN  build_scale([s EXCEPT !.scale_str = str, !.rel = 1,
                                   !.res = Real(Rat(11, 2))], str)
    ELSE s

spin_up_click(s) ==
    IF s.reverse > -1 /\ Len(s.scale_str) < 8
    THEN LET str == GRADUAL_SCALE[Len(s.scale_str) + 1]
         IN  build_scale([s EXCEPT !.scale_str = str, !.rel = 1,
                                   !.res = Real(Rat(11, 2))], str)
    ELSE s

spin_down_click(s) ==
    IF s.reverse > -1 /\ Len(s.scale_str) > 2
    THEN LET str == GRADUAL_SCALE[Len(s.scale_str) - 1]
         IN  build_scale([s EXCEPT !.scale_str = str, !.rel = 1,
                                   !.res = Real(Rat(11, 2))], str)
    ELSE s

\* A wheel that acts on every third event.
mouse_wheel_every_third(s, delta) ==
    IF s.delay_wheel < 2
    THEN [s EXCEPT !.delay_wheel = s.delay_wheel + 1]
    ELSE LET s1 == [s EXCEPT !.delay_wheel = 0]
         IN  IF delta > 0 THEN spin_up_click(s1) ELSE spin_down_click(s1)

mouse_wheel(s, delta) ==
    IF s.delay_wheel < 3
    THEN [s EXCEPT !.delay_wheel = s.delay_wheel + 1]
    ELSE LET s1 == [s EXCEPT !.delay_wheel = 0]
         IN  IF delta > 0 THEN spin_up_click(s1) ELSE spin_down_click(s1)

\* 'No idea' that quits without running FormClose.
no_idea_click_skips_close(s) == [s EXCEPT !.closed = TRUE]

no_idea_click(s) == close_window(s)

get_result(s) == <<s.res, s.rel, s.scale_type>>

\* DynamicScaleInterface.__init__ followed by form_show.
form_show ==
    [reverse |-> -1, res |-> Real(RInt(1)), rel |-> 0, scale_str |-> S0Token,
     scale_type |-> 0, scale_type_var |-> 1, delay_wheel |-> 0,
     panels |-> StartPanels, closed |-> FALSE]

----------------------------------------------------------------------------
(* One DynamicScaleInterface window, and beside it the same window driven  *)
(* by the same events with Less and More exchanged (mirror).               *)

NoPanel == [hint |-> "", bg |-> ""]

Swap(hint) ==
    IF hint = LESS_MORE[0] THEN LESS_MORE[1]
    ELSE IF hint = LESS_MORE[1] THEN LESS_MORE[0]
    ELSE hint

\* The panel of window m that stands where panel p stands in the other one.
MirrorPanel(m, p) == CHOOSE q \in m.panels : q.hint = Swap(p.hint)

Event(op, panel, arg, pre) ==
    [op |-> op, panel |-> panel, arg |-> arg, pre |-> pre]

WheelDeltas == {-120, 120}

Idle == [idle |-> TRUE]

InitDSI ==
    /\ prog = "complete"
    /\ dsi = form_show
    /\ mirror = form_show
    /\ cp = Idle
    /\ cp_mirror = Idle
    /\ calc = Idle
    /\ inp = Idle
    /\ last = Event("init", NoPanel, 0, Idle)
    /\ events = 0

PanelScaleClick ==
    /\ prog = "complete"
    /\ ~dsi.closed
    /\ \E p \in dsi.panels :
          /\ dsi' = panel_scale_click(dsi, p)
          /\ mirror' = panel_scale_click(mirror, MirrorPanel(mirror, p))
          /\ last' = Event("panel_scale_click", p, 0, dsi)
    /\ UNCHANGED <<prog, cp, cp_mirror, calc, inp, events>>

\* The radio buttons live on panel_scale_choice, shown once a direction is set.
ScaleChoiceChanged ==
    /\ prog = "complete"
    /\ ~dsi.closed
    /\ dsi.reverse > -1
    /\ \E t \in ScaleTypes :
          /\ dsi' = scale_choice_changed(dsi, t)
          /\ mirror' = scale_choice_changed(mirror, t)
          /\ last' = Event("scale_choice_changed", NoPanel, t, dsi)
    /\ UNCHANGED <<prog, cp, cp_mirror, calc, inp, events>>

SpinUpClick ==
    /\ prog = "complete"
    /\ ~dsi.closed
    /\ dsi' = spin_up_click(dsi)
    /\ mirror' = spin_up_click(mirror)
    /\ last' = Event("spin_up_click", NoPanel, 0, dsi)
    /\ UNCHANGED <<prog, cp, cp_mirror, calc, inp, events>>

SpinDownClick ==
    /\ prog = "complete"
    /\ ~dsi.closed
    /\ dsi' = spin_down_click(dsi)
    /\ mirror' = spin_down_click(mirror)
    /\ last' = Event("spin_down_click", NoPanel, 0, dsi)
    /\ UNCHANGED <<prog, cp, cp_mirror, calc, inp, events>>

MouseWheel ==
    /\ prog = "complete"
    /\ ~dsi.closed
    /\ \E delta \in WheelDeltas :
          /\ dsi' = mouse_wheel(dsi, delta)
          /\ mirror' = mouse_wheel(mirror, delta)
          /\ last' = Event("mouse_wheel", NoPanel, delta, dsi)
    /\ UNCHANGED <<prog, cp, cp_mirror, calc, inp, events>>

\* The 'No idea' panel, the Return key and the window's close button.
NoIdeaClick ==
    /\ prog = "complete"
    /\ ~dsi.closed
    /\ dsi' = no_idea_click(dsi)
    /\ mirror' = no_idea_click(mirror)
    /\ last' = Event("no_idea_click", NoPanel, 0, dsi)
    /\ UNCHANGED <<prog, cp, cp_mirror, calc, inp, events>>

NextDSI ==
    \/ PanelScaleClick
    \/ ScaleChoiceChanged
    \/ SpinUpClick
    \/ SpinDownClick
    \/ MouseWheel
    \/ NoIdeaClick

SpecDSI == InitDSI /\ [][NextDSI]_vars

----------------------------------------------------------------------------
(* gui/app.py: ComparisonPanel                                             *)

COLORS == [accent |-> "#FF6B6B", border |-> "#E0E6ED"]

APP_PREF ==
    <<"Odnakovo", "Slabko", "Pomirno", "Pomirno plius", "Sylno",
      "Sylno plius", "Duzhe sylno", "Duzhe-duzhe sylno", "Nadzvychaino">>

APP_LESS_MORE == [i \in 0..2 |-> <<"Menshe", "Bilshe", "Ne vpevnenyi">>[i + 1]]

\* The Balanced transform written with data instead of data - 1.
app_integer_by_scale_from_zero(scale_type, data) ==
    IF scale_type = 2
    THEN Real(RDiv(RAdd(Rat(1, 2), RMul(data, Rat(1, 20))),
                   RSub(Rat(1, 2), RMul(data, Rat(1, 20)))))
    ELSE IF scale_type = 3
    THEN Pow9(RDiv(RSub(data, RInt(1)), RInt(8)))
    ELSE IF scale_type = 4
    THEN Real(RDiv(RInt(9), RSub(RInt(10), data)))
    ELSE IF scale_type = 5
    THEN ExpAtanhSqrt3(RDiv(RSub(data, RInt(1)), RInt(14)))
    ELSE Real(data)

app_integer_by_scale(scale_type, data) ==
    IF scale_type = 2
    THEN Real(RDiv(RAdd(Rat(1, 2), RMul(RSub(data, RInt(1)), Rat(1, 20))),
                   RSub(Rat(1, 2), RMul(RSub(data, RInt(1)), Rat(1, 20)))))
    ELSE IF scale_type = 3
    THEN Pow9(RDiv(RSub(data, RInt(1)), RInt(8)))
    ELSE IF scale_type = 4
    THEN Real(RDiv(RInt(9), RSub(RInt(10), data)))
    ELSE IF scale_type = 5
    THEN ExpAtanhSqrt3(RDiv(RSub(data, RInt(1)), RInt(14)))
    ELSE Real(data)

RECURSIVE PairsFrom(_, _, _)
PairsFrom(n, i, j) ==
    IF i >= n THEN <<>>
    ELSE IF j >= n THEN PairsFrom(n, i + 1, i + 2)
    ELSE <<<<i, j>>>> \o PairsFrom(n, i, j + 1)

\* Pairs with the inner loop starting at i instead of i + 1 in the first row.
generate_pairs_from_self(n) == PairsFrom(n, 0, 0)

\* for i in range(n): for j in range(i + 1, n): pairs.append((i, j))
generate_pairs(n) == PairsFrom(n, 0, 1)

AppStartPanels ==
    {[hint |-> APP_LESS_MORE[0], bg |-> COLORS.accent],
     [hint |-> APP_LESS_MORE[1], bg |-> COLORS.accent]}

\* Once the panel has finished its widgets are destroyed, and placing or
\* hiding panel_less raises TclError.
app_build_scale(s, scale_str) ==
    IF s.finished
    THEN [s EXCEPT !.exc = "TclError"]
    ELSE IF s.reverse = -1
    THEN [s EXCEPT !.panels = AppStartPanels]
    ELSE LET li == Len(scale_str)
             indicator ==
                 [hint |-> APP_LESS_MORE[1 - s.reverse], bg |-> COLORS.border]
             pin(idx) ==
                 LET grade == scale_str[idx]
                     pos == IndexOf(scale_str, grade)
                 IN  IF scale_str \in MediumTokens
                     THEN IF is_grouped(scale_str, pos) /\ s.scale_type_var # 1
                          THEN [hint |-> APP_PREF[grade], bg |-> COLORS.border]
                          ELSE [hint |-> APP_PREF[grade], bg |-> COLORS.accent]
                     ELSE [hint |-> APP_PREF[grade], bg |-> COLORS.accent]
         IN  [s EXCEPT !.panels = {indicator} \cup {pin(idx) : idx \in 1..li}]

\* The reset without the working value and reliability.
reset_comparison_keeps_value(s) ==
    [s EXCEPT !.reverse = -1, !.scale_str = S0Token, !.scale_type_id = 1,
              !.panels = AppStartPanels]

reset_comparison(s) ==
    [s EXCEPT !.reverse = -1, !.res = Real(RInt(1)), !.rel = 0,
              !.scale_str = S0Token, !.scale_type_id = 1,
              !.panels = AppStartPanels]

\* Destroys every panel of the scale and hands the list to on_complete.
finish_comparisons(s) ==
    [s EXCEPT !.panels = {}, !.finished = TRUE,
              !.on_complete = Append(s.on_complete, s.comparisons)]

\* pairs[current_pair] raises IndexError once every pair is judged.
confirm_comparison(s) ==
    IF s.current_pair >= Len(s.pairs)
    THEN [s EXCEPT !.exc = "IndexError"]
    ELSE LET ij == s.pairs[s.current_pair + 1]
             transformed == app_integer_by_scale(s.scale_type_var, s.res.q)
             final_res ==
                 IF s.reverse > -1
                 THEN IF s.reverse = 0
                      THEN IF ~IsZero(transformed) THEN Recip(transformed)
                           ELSE transformed
                      ELSE transformed
                 ELSE Real(RInt(1))
             s1 == [s EXCEPT !.scale_type_id = s.scale_type_var,
                             !.comparisons =
                                 Append(s.comparisons,
                                        <<ij[1], ij[2], final_res>>),
                             !.current_pair = s.current_pair + 1]
         IN  IF s1.current_pair >= Len(s1.pairs)
             THEN finish_comparisons(s1)
             ELSE reset_comparison(s1)

AppGradOf(scale_str, hint) ==
    IF \E idx \in 1..Len(scale_str) : hint = APP_PREF[scale_str[idx]]
    THEN CHOOSE idx \in 1..Len(scale_str) :
            /\ hint = APP_PREF[scale_str[idx]]
            /\ \A j \in 1..(idx - 1) : hint # APP_PREF[scale_str[j]]
    ELSE 1

app_select_direction(s, hint) ==
    IF hint \in {APP_LESS_MORE[0], APP_LESS_MORE[1]}
    THEN [s EXCEPT !.reverse = IF hint = APP_LESS_MORE[0] THEN 0 ELSE 1]
    ELSE s

app_first_level(s) ==
    [s EXCEPT !.rel = 1, !.res = Real(Rat(11, 2)), !.scale_str = Coarse]

app_second_level(s, hint) ==
    LET grad == AppGradOf(s.scale_str, hint)
        str == CASE grad = 1 -> Medium1
                 [] grad = 2 -> Medium2
                 [] grad = 3 -> Medium3
    IN  [s EXCEPT !.scale_str = str, !.rel = 3, !.res = Real(GradeAt(grad, 3))]

app_grouped_click(s, hint) ==
    IF hint = APP_PREF[2]
    THEN [s EXCEPT !.scale_str = Medium1, !.res = Real(GradeAt(1, 3))]
    ELSE IF hint = APP_PREF[5]
    THEN [s EXCEPT !.scale_str = Medium2, !.res = Real(GradeAt(2, 3))]
    ELSE IF hint = APP_PREF[9]
    THEN [s EXCEPT !.scale_str = Medium3, !.res = Real(GradeAt(3, 3))]
    ELSE s

app_final_selection(s, hint) ==
    LET grad0 == AppGradOf(s.scale_str, hint)
        grad == IF s.scale_str = Medium2 THEN grad0 + 2
                ELSE IF s.scale_str = Medium3 THEN grad0 + 4
                ELSE grad0
        rel1 == IF s.scale_str \in MediumTokens THEN 8 ELSE Len(s.scale_str)
    IN  [s EXCEPT !.rel = rel1, !.res = Real(GradeAt(grad, rel1))]

app_panel_scale_click(s, panel) ==
    LET hint == panel.hint
        s1 == app_select_direction(s, hint)
    IN  IF s1.scale_str = S0Token
        THEN LET s2 == app_first_level(s1)
             IN  app_build_scale(s2, s2.scale_str)
        ELSE IF s1.scale_str = Coarse /\ panel.bg = COLORS.accent
        THEN LET s2 == app_second_level(s1, hint)
             IN  app_build_scale(s2, s2.scale_str)
        ELSE IF panel.bg = COLORS.border
        THEN LET s2 == app_grouped_click(s1, hint)
             IN  app_build_scale(s2, s2.scale_str)
        ELSE confirm_comparison(app_final_selection(s1, hint))

app_scale_choice_changed(s, t) ==
    app_build_scale([s EXCEPT !.scale_type_var = t], s.scale_str)

app_spin_up_click(s) ==
    IF s.reverse > -1 /\ Len(s.scale_str) < 8
    THEN LET str == GRADUAL_SCALE[Len(s.scale_str) + 1]
         IN  app_build_scale([s EXCEPT !.scale_str = str, !.rel = 1,
                                       !.res = Real(Rat(11, 2))], str)
    ELSE s

app_spin_down_click(s) ==
    IF s.reverse > -1 /\ Len(s.scale_str) > 2
    THEN LET str == GRADUAL_SCALE[Len(s.scale_str) - 1]
         IN  app_build_scale([s EXCEPT !.scale_str = str, !.rel = 1,
                                       !.res = Real(Rat(11, 2))], str)
    ELSE s

app_mouse_wheel(s, delta) ==
    IF s.delay_wheel < 3
    THEN [s EXCEPT !.delay_wheel = s.delay_wheel + 1]
    ELSE LET s1 == [s EXCEPT !.delay_wheel = 0]
         IN  IF delta > 0 THEN app_spin_up_click(s1)
             ELSE app_spin_down_click(s1)

confirm_current_selection(s) ==
    IF s.reverse > -1
    THEN confirm_comparison(s)
    ELSE confirm_comparison([s EXCEPT !.res = Real(RInt(1)), !.rel = 0])

\* Going back without resetting the session in progress.
go_back_keeps_session(s) ==
    IF s.current_pair > 0
    THEN [s EXCEPT !.current_pair = s.current_pair - 1,
                   !.comparisons =
                       IF Len(s.comparisons) > 0
                       THEN SubSeq(s.comparisons, 1, Len(s.comparisons) - 1)
                       ELSE s.comparisons]
    ELSE s

\* Going back without removing the judgment of the pair gone back to.
go_back_keeps_comparison(s) ==
    IF s.current_pair > 0
    THEN reset_comparison([s EXCEPT !.current_pair = s.current_pair - 1])
    ELSE s

\* Going back without the guard on the first pair.
go_back_below_zero(s) ==
    reset_comparison(
        [s EXCEPT !.current_pair = s.current_pair - 1,
                  !.comparisons =
                      IF Len(s.comparisons) > 0
                      THEN SubSeq(s.comparisons, 1, Len(s.comparisons) - 1)
                      ELSE s.comparisons])

go_back(s) ==
    IF s.current_pair > 0
    THEN reset_comparison(
             [s EXCEPT !.current_pair = s.current_pair - 1,
                       !.comparisons =
                           IF Len(s.comparisons) > 0
                           THEN SubSeq(s.comparisons, 1, Len(s.comparisons) - 1)
                           ELSE s.comparisons])
    ELSE s

\* ComparisonPanel.__init__ for n alternatives.
ComparisonPanel(n) ==
    [n |-> n, total_pairs |-> (n * (n - 1)) \div 2, current_pair |-> 0,
     comparisons |-> <<>>, pairs |-> generate_pairs(n),
     reverse |-> -1, res |-> Real(RInt(1)), rel |-> 0, scale_str |-> S0Token,
     scale_type_id |-> 1, scale_type_var |-> 1, delay_wheel |-> 0,
     panels |-> AppStartPanels, finished |-> FALSE, on_complete |-> <<>>,
     exc |-> "none"]

AppSwap(hint) ==
    IF hint = APP_LESS_MORE[0] THEN APP_LESS_MORE[1]
    ELSE IF hint = APP_LESS_MORE[1] THEN APP_LESS_MORE[0]
    ELSE hint

AppMirrorPanel(m, p) == CHOOSE q \in m.panels : q.hint = AppSwap(p.hint)

MaxItems == 3
MaxEvents == 5

InitApp ==
    /\ prog = "app"
    /\ \E n \in 2..MaxItems :
          /\ cp = ComparisonPanel(n)
          /\ cp_mirror = ComparisonPanel(n)
    /\ dsi = Idle
    /\ mirror = Idle
    /\ calc = Idle
    /\ inp = Idle
    /\ last = Event("init", NoPanel, 0, Idle)
    /\ events = 0

AppPanelScaleClick ==
    /\ prog = "app"
    /\ events < MaxEvents
    /\ \E p \in cp.panels :
          /\ cp' = app_panel_scale_click(cp, p)
          /\ cp_mirror' = app_panel_scale_click(cp_mirror,
                                                AppMirrorPanel(cp_mirror, p))
          /\ last' = Event("panel_scale_click", p, 0, cp)
    /\ events' = events + 1
    /\ UNCHANGED <<prog, dsi, mirror, calc, inp>>

AppScaleChoiceChanged ==
    /\ prog = "app"
    /\ events < MaxEvents
    /\ ~cp.finished
    /\ cp.reverse > -1
    /\ \E t \in ScaleTypes :
          /\ cp' = app_scale_choice_changed(cp, t)
          /\ cp_mirror' = app_scale_choice_changed(cp_mirror, t)
          /\ last' = Event("scale_choice_changed", NoPanel, t, cp)
    /\ events' = events + 1
    /\ UNCHANGED <<prog, dsi, mirror, calc, inp>>

\* Also bound with bind_all, so still delivered after the panel finished.
AppSpinUpClick ==
    /\ prog = "app"
    /\ events < MaxEvents
    /\ cp' = app_spin_up_click(cp)
    /\ cp_mirror' = app_spin_up_click(cp_mirror)
    /\ last' = Event("spin_up_click", NoPanel, 0, cp)
    /\ events' = events + 1
    /\ UNCHANGED <<prog, dsi, mirror, calc, inp>>

AppSpinDownClick ==
    /\ prog = "app"
    /\ events < MaxEvents
    /\ cp' = app_spin_down_click(cp)
    /\ cp_mirror' = app_spin_down_click(cp_mirror)
    /\ last' = Event("spin_down_click", NoPanel, 0, cp)
    /\ events' = events + 1
    /\ UNCHANGED <<prog, dsi, mirror, calc, inp>>

\* Also bound with bind_all, so still delivered after the panel finished.
AppMouseWheel ==
    /\ prog = "app"
    /\ events < MaxEvents
    /\ \E delta \in WheelDeltas :
          /\ cp' = app_mouse_wheel(cp, delta)
          /\ cp_mirror' = app_mouse_wheel(cp_mirror, delta)
          /\ last' = Event("mouse_wheel", NoPanel, delta, cp)
    /\ events' = events + 1
    /\ UNCHANGED <<prog, dsi, mirror, calc, inp>>

\* The Return key, bound with bind_all.
ConfirmCurrentSelection ==
    /\ prog = "app"
    /\ events < MaxEvents
    /\ cp' = confirm_current_selection(cp)
    /\ cp_mirror' = confirm_current_selection(cp_mirror)
    /\ last' = Event("confirm_current_selection", NoPanel, 0, cp)
    /\ events' = events + 1
    /\ UNCHANGED <<prog, dsi, mirror, calc, inp>>

GoBack ==
    /\ prog = "app"
    /\ events < MaxEvents
    /\ ~cp.finished
    /\ cp' = go_back(cp)
    /\ cp_mirror' = go_back(cp_mirror)
    /\ last' = Event("go_back", NoPanel, 0, cp)
    /\ events' = events + 1
    /\ UNCHANGED <<prog, dsi, mirror, calc, inp>>

NextApp ==
    \/ AppPanelScaleClick
    \/ AppScaleChoiceChanged
    \/ AppSpinUpClick
    \/ AppSpinDownClick
    \/ AppMouseWheel
    \/ ConfirmCurrentSelection
    \/ GoBack

SpecApp == InitApp /\ [][NextApp]_vars

----------------------------------------------------------------------------
(* gui/calculations.py                                                     *)

\* a * b = 1
ProductIsOne(a, b) ==
    IF a.fam = "rat" /\ b.fam = "rat" THEN RMul(a.q, b.q) = RInt(1)
    ELSE a.fam = b.fam /\ RAdd(a.q, b.q).n = 0

IsPositive(v) == IF v.fam = "rat" THEN v.q.n > 0 ELSE TRUE

\* One pass that writes the reciprocal entry only for pairs given as i < j.
RECURSIVE BuildFromOrderedOnly(_, _, _)
BuildFromOrderedOnly(matrix, comparisons, k) ==
    IF k > Len(comparisons) THEN matrix
    ELSE LET i == comparisons[k][1]
             j == comparisons[k][2]
             value == comparisons[k][3]
             m1 == [matrix EXCEPT ![<<i, j>>] = value]
             m2 == IF i < j
                   THEN [m1 EXCEPT ![<<j, i>>] =
                            IF IsPositive(value) THEN Recip(value)
                            ELSE Real(RInt(1))]
                   ELSE m1
         IN  BuildFromOrderedOnly(m2, comparisons, k + 1)

RECURSIVE BuildFrom(_, _, _)
BuildFrom(matrix, comparisons, k) ==
    IF k > Len(comparisons) THEN matrix
    ELSE LET i == comparisons[k][1]
             j == comparisons[k][2]
             value == comparisons[k][3]
             m1 == [matrix EXCEPT ![<<i, j>>] = value]
             m2 == [m1 EXCEPT ![<<j, i>>] =
                        IF IsPositive(value) THEN Recip(value)
                        ELSE Real(RInt(1))]
         IN  BuildFrom(m2, comparisons, k + 1)

\* An error also for two judgments of one pair.
raises_on_duplicate_pair(n, comparisons) ==
    \/ \E k \in 1..Len(comparisons) :
          \/ comparisons[k][1] \notin 0..(n - 1)
          \/ comparisons[k][2] \notin 0..(n - 1)
    \/ \E a \in 1..Len(comparisons) : \E b \in (a + 1)..Len(comparisons) :
          {comparisons[a][1], comparisons[a][2]}
              = {comparisons[b][1], comparisons[b][2]}

\* matrix[i, j] raises IndexError for an index outside the matrix; this is
\* the only way the function reports an error to its caller.
raises_index_error(n, comparisons) ==
    \E k \in 1..Len(comparisons) :
        \/ comparisons[k][1] \notin 0..(n - 1)
        \/ comparisons[k][2] \notin 0..(n - 1)

\* matrix = np.ones((n, n)), then one pass over the comparisons.
build_comparison_matrix(n, comparisons) ==
    BuildFrom([c \in (0..(n - 1)) \X (0..(n - 1)) |-> Real(RInt(1))],
              comparisons, 1)

MaxN == 3
MaxJudgments == 2

\* Ratios handed to build_comparison_matrix: 0, 1/2, 1, 3.
CalcValues == {Real(RInt(0)), Real(Rat(1, 2)), Real(RInt(1)), Real(RInt(3))}

\* Judgments with indices 0..n: index n lies outside the n x n matrix.
Judgments(n) ==
    {<<i, j, v>> : i \in 0..n, j \in 0..n, v \in CalcValues}

SeqsUpTo(S, k) == UNION {[1..m -> S] : m \in 0..k}

InitCalc ==
    /\ prog = "calc"
    /\ \E n \in 2..MaxN :
          \E js \in SeqsUpTo({t \in Judgments(n) : t[1] # t[2]}, MaxJudgments) :
             calc = [n |-> n, comparisons |-> js, matrix |-> <<>>,
                     pc |-> "input"]
    /\ dsi = Idle
    /\ mirror = Idle
    /\ cp = Idle
    /\ cp_mirror = Idle
    /\ inp = Idle
    /\ last = Event("init", NoPanel, 0, Idle)
    /\ events = 0

BuildComparisonMatrix ==
    /\ prog = "calc"
    /\ calc.pc = "input"
    /\ calc' = IF raises_index_error(calc.n, calc.comparisons)
                THEN [calc EXCEPT !.pc = "raised"]
                ELSE [calc EXCEPT
                        !.matrix = build_comparison_matrix(calc.n,
                                                           calc.comparisons),
                        !.pc = "built"]
    /\ last' = Event("build_comparison_matrix", NoPanel, 0, calc)
    /\ UNCHANGED <<prog, dsi, mirror, cp, cp_mirror, inp, events>>

NextCalc == BuildComparisonMatrix

SpecCalc == InitCalc /\ [][NextCalc]_vars

----------------------------------------------------------------------------
(* gui/calculations.py: consistency.  A float64 here is a rational or one  *)
(* of the IEEE values inf, -inf and nan, which numpy's array division      *)
(* yields (with a RuntimeWarning, not an exception) for a zero divisor.    *)

PosInf == [fam |-> "inf", q |-> RInt(0)]
NegInf == [fam |-> "ninf", q |-> RInt(0)]
NaN == [fam |-> "nan", q |-> RInt(0)]

isfinite(v) == v.fam = "rat"

\* The sign of a value other than nan.
Sign(v) ==
    CASE v.fam = "inf" -> 1
      [] v.fam = "ninf" -> -1
      [] OTHER -> IF v.q.n > 0 THEN 1 ELSE IF v.q.n < 0 THEN -1 ELSE 0

Signed(s) == IF s > 0 THEN PosInf ELSE NegInf

FNeg(a) ==
    CASE a.fam = "inf" -> NegInf
      [] a.fam = "ninf" -> PosInf
      [] a.fam = "nan" -> NaN
      [] OTHER -> Real(RNeg(a.q))

FAdd(a, b) ==
    IF a.fam = "nan" \/ b.fam = "nan" THEN NaN
    ELSE IF isfinite(a) /\ isfinite(b) THEN Real(RAdd(a.q, b.q))
    ELSE IF isfinite(a) THEN b
    ELSE IF isfinite(b) THEN a
    ELSE IF a = b THEN a
    ELSE NaN

FSub(a, b) == FAdd(a, FNeg(b))

\* a / b; a zero divisor is +0.0 (the weights are magnitudes).
FDiv(a, b) ==
    IF a.fam = "nan" \/ b.fam = "nan" THEN NaN
    ELSE IF isfinite(b)
    THEN IF Sign(b) = 0
         THEN IF Sign(a) = 0 THEN NaN ELSE Signed(Sign(a))
         ELSE IF isfinite(a) THEN Real(RDiv(a.q, b.q))
         ELSE Signed(Sign(a) * Sign(b))
    ELSE IF isfinite(a) THEN Real(RInt(0))
    ELSE NaN

\* a <= b; every comparison with nan is False.
FLe(a, b) ==
    IF a.fam = "nan" \/ b.fam = "nan" THEN FALSE
    ELSE IF isfinite(a) /\ isfinite(b) THEN RLe(a.q, b.q)
    ELSE a = b \/ a = NegInf \/ b = PosInf

\* f[0] + ... + f[k - 1]
RECURSIVE FSum(_, _)
FSum(f, k) ==
    IF k = 0 THEN Real(RInt(0)) ELSE FAdd(FSum(f, k - 1), f[k - 1])

\* Hundredths of the Random Index, for matrix sizes 1..15.
RANDOM_INDEX ==
    [n \in 1..15 |->
        Rat(<<0, 0, 58, 90, 112, 124, 132, 141, 145, 149, 151, 148, 156, 157,
              159>>[n], 100)]

\* np.dot(comparison_matrix, weights)[i]
Dot(comparison_matrix, weights, i) ==
    LET n == Cardinality(DOMAIN weights)
    IN  FSum([j \in 0..(n - 1) |->
                 Real(RMul(comparison_matrix[<<i, j>>].q, weights[j].q))], n)

calculate_lambda_max(comparison_matrix, weights) ==
    LET n == Cardinality(DOMAIN weights)
        weighted_sum == [i \in 0..(n - 1) |->
                            Dot(comparison_matrix, weights, i)]
    IN  FDiv(FSum([i \in 0..(n - 1) |-> FDiv(weighted_sum[i], weights[i])],
                  n),
             Real(RInt(n)))

calculate_consistency_index(lambda_max, n) ==
    IF n <= 1 THEN Real(RInt(0))
    ELSE FDiv(FSub(lambda_max, Real(RInt(n))), Real(RInt(n - 1)))

\* The fallback of the table lookup taken from the table's last entry.
calculate_consistency_ratio_last_entry(CI, n) ==
    IF n <= 2 THEN Real(RInt(0))
    ELSE LET RI == IF n \in DOMAIN RANDOM_INDEX THEN RANDOM_INDEX[n]
                   ELSE RANDOM_INDEX[15]
         IN  IF RI.n > 0 THEN FDiv(CI, Real(RI)) ELSE Real(RInt(0))

calculate_consistency_ratio(CI, n) ==
    IF n <= 2 THEN Real(RInt(0))
    ELSE LET RI == IF n \in DOMAIN RANDOM_INDEX THEN RANDOM_INDEX[n]
                   ELSE Rat(149, 100)
         IN  IF RI.n > 0 THEN FDiv(CI, Real(RI)) ELSE Real(RInt(0))

\* threshold=0.10
DefaultThreshold == Real(Rat(1, 10))

\* The verdict taken on CI instead of CR.
check_consistency_on_CI(comparison_matrix, weights, threshold) ==
    LET n == Cardinality(DOMAIN weights)
        lambda_max == calculate_lambda_max(comparison_matrix, weights)
        CI == calculate_consistency_index(lambda_max, n)
        CR == calculate_consistency_ratio(CI, n)
        is_consistent == FLe(CI, threshold)
    IN  [lambda_max |-> lambda_max, CI |-> CI, CR |-> CR,
         is_consistent |-> is_consistent,
         recommendations |->
            IF ~is_consistent
            THEN <<[text |-> "CR exceeds the threshold", CR |-> CR,
                    threshold |-> threshold],
                   [text |-> "review the pairwise comparisons"],
                   [text |-> "find the most inconsistent pairs"]>>
            ELSE <<[text |-> "judgments are consistent", CR |-> CR,
                    threshold |-> threshold]>>]

\* The recommendations are the f-strings of the source, kept as a text
\* and the values formatted into it.
check_consistency(comparison_matrix, weights, threshold) ==
    LET n == Cardinality(DOMAIN weights)
        lambda_max == calculate_lambda_max(comparison_matrix, weights)
        CI == calculate_consistency_index(lambda_max, n)
        CR == calculate_consistency_ratio(CI, n)
        is_consistent == FLe(CR, threshold)
    IN  [lambda_max |-> lambda_max, CI |-> CI, CR |-> CR,
         is_consistent |-> is_consistent,
         recommendations |->
            IF ~is_consistent
            THEN <<[text |-> "CR exceeds the threshold", CR |-> CR,
                    threshold |-> threshold],
                   [text |-> "review the pairwise comparisons"],
                   [text |-> "find the most inconsistent pairs"]>>
            ELSE <<[text |-> "judgments are consistent", CR |-> CR,
                    threshold |-> threshold]>>]

(* One call of calculate_consistency_ratio(CI, n).                         *)

MaxRatioN == 16

\* Consistency indices handed to the function, finite and not.
RatioCIs ==
    {Real(Rat(-1, 10)), Real(RInt(0)), Real(Rat(29, 1000)), Real(Rat(1, 10)),
     Real(RInt(2)), PosInf, NaN}

InitRatio ==
    /\ prog = "ratio"
    /\ \E CI \in RatioCIs : \E n \in 0..MaxRatioN :
          calc = [CI |-> CI, n |-> n, CR |-> NaN, pc |-> "input"]
    /\ dsi = Idle
    /\ mirror = Idle
    /\ cp = Idle
    /\ cp_mirror = Idle
    /\ inp = Idle
    /\ last = Event("init", NoPanel, 0, Idle)
    /\ events = 0

CalculateConsistencyRatio ==
    /\ prog = "ratio"
    /\ calc.pc = "input"
    /\ calc' = [calc EXCEPT
                  !.CR = calculate_consistency_ratio(calc.CI, calc.n),
                  !.pc = "returned"]
    /\ last' = Event("calculate_consistency_ratio", NoPanel, 0, calc)
    /\ UNCHANGED <<prog, dsi, mirror, cp, cp_mirror, inp, events>>

NextRatio == CalculateConsistencyRatio

SpecRatio == InitRatio /\ [][NextRatio]_vars

(* One call of check_consistency(comparison_matrix, weights), on a matrix  *)
(* built from a complete list of judgments.                                *)

\* Ratios of the judgments: 1/3, 1, 3, 5, 7.
Ratios ==
    {Real(Rat(1, 3)), Real(RInt(1)), Real(RInt(3)), Real(RInt(5)),
     Real(RInt(7))}

\* One judgment for every pair, in the order of the pairs; the ratios are
\* the three given ones, repeated in turn when there are more pairs.
JudgmentsOf(n, rs) ==
    LET pairs == generate_pairs(n)
    IN  [k \in 1..Len(pairs) |->
            <<pairs[k][1], pairs[k][2], rs[((k - 1) % 3) + 1]>>]

\* Entries of a weight vector handed to check_consistency.
WeightValues ==
    {Real(RInt(0)), Real(Rat(1, 15)), Real(Rat(4, 15)), Real(Rat(2, 3))}

NoReport == [idle |-> TRUE]

InitConsistency ==
    /\ prog = "consistency"
    /\ \E n \in 1..MaxN : \E rs \in [1..3 -> Ratios] :
          \E weights \in [0..(n - 1) -> WeightValues] :
             calc = [n |-> n, comparisons |-> JudgmentsOf(n, rs),
                     matrix |-> build_comparison_matrix(n, JudgmentsOf(n, rs)),
                     weights |-> weights, consistency |-> NoReport,
                     pc |-> "input"]
    /\ dsi = Idle
    /\ mirror = Idle
    /\ cp = Idle
    /\ cp_mirror = Idle
    /\ inp = Idle
    /\ last = Event("init", NoPanel, 0, Idle)
    /\ events = 0

CheckConsistency ==
    /\ prog = "consistency"
    /\ calc.pc = "input"
    /\ calc' = [calc EXCEPT
                  !.consistency = check_consistency(calc.matrix, calc.weights,
                                                    DefaultThreshold),
                  !.pc = "returned"]
    /\ last' = Event("check_consistency", NoPanel, 0, calc)
    /\ UNCHANGED <<prog, dsi, mirror, cp, cp_mirror, inp, events>>

NextConsistency == CheckConsistency

SpecConsistency == InitConsistency /\ [][NextConsistency]_vars

(* gui/calculations.py: weights, and the sequence of calls made by         *)
(* test_core.test_calculations (ResultsPanel._calculate_results makes the  *)
(* same calls without the geometric mean).  The two irrational results,    *)
(* the principal eigenvector and an n-th root, are held to the precision   *)
(* 1 / Precision.                                                          *)

Precision == 15

\* len(comparison_matrix)
MatLen(comparison_matrix) ==
    Cardinality({c \in DOMAIN comparison_matrix : c[1] = c[2]})

\* The sequences of n positive integers with the given sum.
RECURSIVE Compositions(_, _)
Compositions(n, total) ==
    IF n = 1 THEN {<<total>>}
    ELSE UNION {{<<k>> \o r : r \in Compositions(n - 1, total - k)} :
                   k \in 1..(total - n + 1)}

Vector(ks, s) == [i \in 0..(Len(ks) - 1) |-> Real(RInt(s * ks[i + 1]))]

\* max_i (A v)_i / v_i - min_i (A v)_i / v_i, which is 0 exactly for an
\* eigenvector v of A.
Residual(comparison_matrix, v) ==
    LET n == Cardinality(DOMAIN v)
        r == {RDiv(Dot(comparison_matrix, v, i).q, v[i].q) : i \in 0..(n - 1)}
        hi == CHOOSE x \in r : \A y \in r : RLe(y, x)
        lo == CHOOSE x \in r : \A y \in r : RLe(x, y)
    IN  RSub(hi, lo)

EigTolerances == <<Rat(1, 2), RInt(1), RInt(2), RInt(4), RInt(8)>>

\* The first tolerance that the residual of v meets.
Level(comparison_matrix, v) ==
    LET r == Residual(comparison_matrix, v)
        met == {k \in 1..Len(EigTolerances) : RLe(r, EigTolerances[k])}
    IN  IF met = {} THEN Len(EigTolerances) + 1
        ELSE CHOOSE k \in met : \A m \in met : k <= m

\* The positive vectors of the grid whose residual is within the first
\* tolerance that some vector of the grid meets.
Perron(comparison_matrix, n) ==
    LET levelled == {<<Level(comparison_matrix, Vector(ks, 1)), ks>> :
                        ks \in Compositions(n, Precision)}
        best == CHOOSE t \in levelled : \A u \in levelled : t[1] <= u[1]
    IN  {Vector(t[2], 1) : t \in {u \in levelled : u[1] = best[1]}}

\* linalg.eig and the column of the largest eigenvalue: for a positive
\* matrix the Perron vector, whose entries are non-zero and of one sign;
\* LAPACK fixes neither the sign nor, beyond rounding, the entries.  (Its
\* length is 1 in the 2-norm; here it is Precision in the 1-norm.)
principal_eigenvector(comparison_matrix) ==
    LET n == MatLen(comparison_matrix)
    IN  {[i \in 0..(n - 1) |-> Real(RMul(RInt(s), v[i].q))] :
            v \in Perron(comparison_matrix, n), s \in {-1, 1}}

\* The magnitudes returned without dividing by their sum.
calculate_weights_eigenvector_unnormalised(comparison_matrix, eigenvector) ==
    LET n == MatLen(comparison_matrix)
    IN  [i \in 0..(n - 1) |->
            Real(Rat(Abs(eigenvector[i].q.n), eigenvector[i].q.d))]

\* weights = np.abs(principal_eigenvector); weights / np.sum(weights)
calculate_weights_eigenvector(comparison_matrix, eigenvector) ==
    LET n == MatLen(comparison_matrix)
        weights == [i \in 0..(n - 1) |->
                       Real(Rat(Abs(eigenvector[i].q.n), eigenvector[i].q.d))]
        total == FSum(weights, n)
    IN  [i \in 0..(n - 1) |-> FDiv(weights[i], total)]

\* np.prod(comparison_matrix[i, :]), columns 0..k-1
RECURSIVE RowProduct(_, _, _)
RowProduct(comparison_matrix, i, k) ==
    IF k = 0 THEN RInt(1)
    ELSE RMul(RowProduct(comparison_matrix, i, k - 1),
              comparison_matrix[<<i, k - 1>>].q)

\* The largest k with (k / Precision)^n <= product.
RECURSIVE RootSteps(_, _, _)
RootSteps(product, n, k) ==
    IF IPow(k + 1, n) * product.d <= product.n * IPow(Precision, n)
    THEN RootSteps(product, n, k + 1)
    ELSE k

\* product ** (1.0 / n)
NthRoot(product, n) == Real(Rat(RootSteps(product, n, 0), Precision))

calculate_weights_geometric_mean(comparison_matrix) ==
    LET n == MatLen(comparison_matrix)
        geometric_means ==
            [i \in 0..(n - 1) |->
                NthRoot(RowProduct(comparison_matrix, i, n), n)]
        total == FSum(geometric_means, n)
    IN  [i \in 0..(n - 1) |-> FDiv(geometric_means[i], total)]

NoWeights == <<>>

\* np.argsort(weights): ascending instead of descending order.
argsort_ascending(weights) ==
    LET n == Cardinality(DOMAIN weights)
    IN  {p \in [1..n -> 0..(n - 1)] :
            /\ \A a \in 1..n : \A b \in 1..n : a # b => p[a] # p[b]
            /\ \A a \in 1..(n - 1) :
                  RLe(weights[p[a]].q, weights[p[a + 1]].q)}

\* np.argsort(-weights): the orders of the indices in which the weights do
\* not increase (the order of equal weights is not fixed).
argsort_descending(weights) ==
    LET n == Cardinality(DOMAIN weights)
    IN  {p \in [1..n -> 0..(n - 1)] :
            /\ \A a \in 1..n : \A b \in 1..n : a # b => p[a] # p[b]
            /\ \A a \in 1..(n - 1) :
                  RLe(weights[p[a + 1]].q, weights[p[a]].q)}

InitResults ==
    /\ prog = "results"
    /\ \E n \in 1..MaxN : \E rs \in [1..3 -> Ratios] :
          calc = [n |-> n, comparisons |-> JudgmentsOf(n, rs),
                  matrix |-> <<>>, weights_ev |-> NoWeights,
                  weights_gm |-> NoWeights, consistency |-> NoReport,
                  ranks |-> <<>>, pc |-> "input"]
    /\ dsi = Idle
    /\ mirror = Idle
    /\ cp = Idle
    /\ cp_mirror = Idle
    /\ inp = Idle
    /\ last = Event("init", NoPanel, 0, Idle)
    /\ events = 0

ResultsBuildMatrix ==
    /\ prog = "results"
    /\ calc.pc = "input"
    /\ calc' = [calc EXCEPT
                  !.matrix = build_comparison_matrix(calc.n, calc.comparisons),
                  !.pc = "matrix"]
    /\ last' = Event("build_comparison_matrix", NoPanel, 0, calc)
    /\ UNCHANGED <<prog, dsi, mirror, cp, cp_mirror, inp, events>>

CalculateWeightsEigenvector ==
    /\ prog = "results"
    /\ calc.pc = "matrix"
    /\ \E eigenvector \in principal_eigenvector(calc.matrix) :
          calc' = [calc EXCEPT
                     !.weights_ev =
                         calculate_weights_eigenvector(calc.matrix,
                                                       eigenvector),
                     !.pc = "eigenvector"]
    /\ last' = Event("calculate_weights_eigenvector", NoPanel, 0, calc)
    /\ UNCHANGED <<prog, dsi, mirror, cp, cp_mirror, inp, events>>

CalculateWeightsGeometricMean ==
    /\ prog = "results"
    /\ calc.pc = "eigenvector"
    /\ calc' = [calc EXCEPT
                  !.weights_gm = calculate_weights_geometric_mean(calc.matrix),
                  !.pc = "geometric_mean"]
    /\ last' = Event("calculate_weights_geometric_mean", NoPanel, 0, calc)
    /\ UNCHANGED <<prog, dsi, mirror, cp, cp_mirror, inp, events>>

\* check_consistency(matrix, weights_ev) and np.argsort(-weights_ev) + 1
ResultsCheckConsistency ==
    /\ prog = "results"
    /\ calc.pc = "geometric_mean"
    /\ \E p \in argsort_descending(calc.weights_ev) :
          calc' = [calc EXCEPT
                     !.consistency = check_consistency(calc.matrix,
                                                       calc.weights_ev,
                                                       DefaultThreshold),
                     !.ranks = [k \in 1..calc.n |-> p[k] + 1],
                     !.pc = "checked"]
    /\ last' = Event("check_consistency", NoPanel, 0, calc)
    /\ UNCHANGED <<prog, dsi, mirror, cp, cp_mirror, inp, events>>

NextResults ==
    \/ ResultsBuildMatrix
    \/ CalculateWeightsEigenvector
    \/ CalculateWeightsGeometricMean
    \/ ResultsCheckConsistency

SpecResults == InitResults /\ [][NextResults]_vars

(* The scale transform of the three interfaces, called on two grades.      *)

\* dynamic_scale_interface.py; ScaleType is an IntEnum, BALANCED = 2 ...
\* DODD = 5.
basic_integer_by_scale(scale_type, data) ==
    IF scale_type = 2
    THEN Real(RDiv(RAdd(Rat(1, 2), RMul(RSub(data, RInt(1)), Rat(1, 20))),
                   RSub(Rat(1, 2), RMul(RSub(data, RInt(1)), Rat(1, 20)))))
    ELSE IF scale_type = 3
    THEN Pow9(RDiv(RSub(data, RInt(1)), RInt(8)))
    ELSE IF scale_type = 4
    THEN Real(RDiv(RInt(9), RSub(RAdd(RInt(9), RInt(1)), data)))
    ELSE IF scale_type = 5
    THEN ExpAtanhSqrt3(RDiv(RSub(data, RInt(1)), RInt(14)))
    ELSE Real(data)

Interfaces == {"complete", "app", "basic"}

\* The transform of the given interface.
Transform(interface, scale_type, data) ==
    CASE interface = "complete" -> integer_by_scale(scale_type, data)
      [] interface = "app" -> app_integer_by_scale(scale_type, data)
      [] interface = "basic" -> basic_integer_by_scale(scale_type, data)

GradeDen == 2

\* Grades of [1, 9]: the multiples of 1 / GradeDen, and the grades of the
\* panels, 1.5 + (grad - 0.5) * 8 / k for k = 2..8 panels.
Grades ==
    {RAdd(RInt(1), Rat(k, GradeDen)) : k \in 0..(8 * GradeDen)}
        \cup UNION {{GradeAt(grad, k) : grad \in 1..k} : k \in 2..8}

InitScale ==
    /\ prog = "scale"
    /\ \E interface \in Interfaces : \E scale_type \in ScaleTypes :
          \E g1 \in Grades : \E g2 \in {g \in Grades : RLe(g1, g)} :
             calc = [interface |-> interface, scale_type |-> scale_type,
                     data |-> <<g1, g2>>, result |-> <<>>]
    /\ dsi = Idle
    /\ mirror = Idle
    /\ cp = Idle
    /\ cp_mirror = Idle
    /\ inp = Idle
    /\ last = Event("init", NoPanel, 0, Idle)
    /\ events = 0

\* One call, on the next of the grades.
IntegerByScale ==
    /\ prog = "scale"
    /\ Len(calc.result) < Len(calc.data)
    /\ calc' = [calc EXCEPT
                  !.result = Append(@, Transform(calc.interface,
                                                 calc.scale_type,
                                                 calc.data[Len(@) + 1]))]
    /\ last' = Event("integer_by_scale", NoPanel, 0, calc)
    /\ UNCHANGED <<prog, dsi, mirror, cp, cp_mirror, inp, events>>

NextScale == IntegerByScale

SpecScale == InitScale /\ [][NextScale]_vars

----------------------------------------------------------------------------
(* gui/app.py: InputPanel.  An entry's text is a sequence of characters.   *)

RECURSIVE lstrip(_)
lstrip(text) ==
    IF text # <<>> /\ Head(text) = " " THEN lstrip(Tail(text)) ELSE text

RECURSIVE rstrip(_)
rstrip(text) ==
    IF text # <<>> /\ text[Len(text)] = " "
    THEN rstrip(SubSeq(text, 1, Len(text) - 1))
    ELSE text

\* str.strip()
strip(text) == rstrip(lstrip(text))

RECURSIVE AlternativesFrom(_, _)
AlternativesFrom(entries, k) ==
    IF k > Len(entries) THEN <<>>
    ELSE LET text == strip(entries[k])
         IN  (IF text # <<>> THEN <<text>> ELSE <<>>)
                 \o AlternativesFrom(entries, k + 1)

\* The alternatives taken from the entries without stripping them.
get_alternatives_unstripped(s) ==
    SelectSeq(s.entries, LAMBDA text : text # <<>>)

\* for entry in self.entries: text = entry.get().strip(); if text: append
get_alternatives(s) == AlternativesFrom(s.entries, 1)

\* len(set(alternatives))
SetLen(seq) == Cardinality({seq[k] : k \in 1..Len(seq)})

\* messagebox.showerror and return, or on_next(alternatives), after which
\* MainApplication replaces the panel.
validate_and_next(s) ==
    LET alternatives == get_alternatives(s)
    IN  IF Len(alternatives) < 2
        THEN [s EXCEPT !.error = "minimum 2 alternatives"]
        ELSE IF Len(alternatives) # SetLen(alternatives)
        THEN [s EXCEPT !.error = "names must be unique"]
        ELSE [s EXCEPT !.error = "",
                       !.on_next = Append(s.on_next, alternatives),
                       !.shown = FALSE]

\* InputPanel.__init__: three empty entry fields.
InputPanel ==
    [entries |-> <<<<>>, <<>>, <<>>>>, on_next |-> <<>>, error |-> "",
     shown |-> TRUE]

\* Texts a user types: up to two characters, blank or 'a'.
Texts ==
    {<<>>} \cup {<<c>> : c \in {" ", "a"}}
           \cup {<<c, e>> : c \in {" ", "a"}, e \in {" ", "a"}}

MaxEntries == 4

InitInput ==
    /\ prog = "input"
    /\ inp = InputPanel
    /\ dsi = Idle
    /\ mirror = Idle
    /\ cp = Idle
    /\ cp_mirror = Idle
    /\ calc = Idle
    /\ last = Event("init", NoPanel, 0, Idle)
    /\ events = 0

AddField ==
    /\ prog = "input"
    /\ inp.shown
    /\ Len(inp.entries) < MaxEntries
    /\ inp' = [inp EXCEPT !.entries = Append(inp.entries, <<>>)]
    /\ last' = Event("add_field", NoPanel, 0, Idle)
    /\ UNCHANGED <<prog, dsi, mirror, cp, cp_mirror, calc, events>>

\* The user replaces the text of one entry field.
TypeEntry ==
    /\ prog = "input"
    /\ inp.shown
    /\ \E k \in 1..Len(inp.entries) : \E text \in Texts :
          inp' = [inp EXCEPT !.entries[k] = text]
    /\ last' = Event("type_entry", NoPanel, 0, Idle)
    /\ UNCHANGED <<prog, dsi, mirror, cp, cp_mirror, calc, events>>

ValidateAndNext ==
    /\ prog = "input"
    /\ inp.shown
    /\ inp' = validate_and_next(inp)
    /\ last' = Event("validate_and_next", NoPanel, 0, inp)
    /\ UNCHANGED <<prog, dsi, mirror, cp, cp_mirror, calc, events>>

NextInput == AddField \/ TypeEntry \/ ValidateAndNext

SpecInput == InitInput /\ [][NextInput]_vars

----------------------------------------------------------------------------
(* main.py: the short DynamicScaleInterface, in variables dsi and mirror   *)
(* (the same events with Less and More exchanged).  Its gradation handlers *)
(* are empty and close_window only destroys the window.                    *)

main_build_scale(s, scale_str) ==
    IF s.reverse = -1
    THEN [s EXCEPT !.panels = StartPanels]
    ELSE LET li == Len(scale_str)
             indicator == [hint |-> LESS_MORE[1 - s.reverse], bg |-> "#f0f0f0"]
             pin(idx) ==
                 LET grade == scale_str[idx]
                     pos == IndexOf(scale_str, grade)
                     grouped ==
                         \/ scale_str = Medium1 /\ pos > 3
                         \/ scale_str = Medium2 /\ ~(2 <= pos /\ pos <= 4)
                         \/ scale_str = Medium3 /\ pos < 3
                 IN  IF scale_str \in MediumTokens /\ grouped
                        /\ s.scale_type_var # 1
                     THEN [hint |-> PREF[grade], bg |-> "#f0f0f0"]
                     ELSE [hint |-> PREF[grade], bg |-> "red"]
         IN  [s EXCEPT !.panels = {indicator} \cup {pin(idx) : idx \in 1..li}]

\* root.quit(); root.destroy(): res and rel stay as the handler left them.
main_close_window(s) == [s EXCEPT !.closed = TRUE]

main_panel_scale_click(s, panel) ==
    LET hint == panel.hint
        s1 == IF hint \in {LESS_MORE[0], LESS_MORE[1]}
              THEN [s EXCEPT !.reverse = IF hint = LESS_MORE[0] THEN 0 ELSE 1]
              ELSE s
        grad0 == GradOf(s1.scale_str, hint)
    IN  IF s1.scale_str = S0Token
        THEN main_build_scale([s1 EXCEPT !.rel = 1, !.res = Real(Rat(11, 2)),
                                         !.scale_str = Coarse], Coarse)
        ELSE IF s1.scale_str = Coarse /\ panel.bg = "red"
        THEN LET str == CASE grad0 = 1 -> Medium1
                          [] grad0 = 2 -> Medium2
                          [] grad0 = 3 -> Medium3
             IN  main_build_scale(
                     [s1 EXCEPT !.scale_str = str, !.rel = 3,
                                !.res = Real(GradeAt(grad0, 3))], str)
        ELSE IF panel.bg = "#f0f0f0"
        THEN IF hint = PREF[2]
             THEN main_build_scale(
                      [s1 EXCEPT !.scale_str = Medium1,
                                 !.res = Real(GradeAt(1, 3))], Medium1)
             ELSE IF hint = PREF[5]
             THEN main_build_scale(
                      [s1 EXCEPT !.scale_str = Medium2,
                                 !.res = Real(GradeAt(2, 3))], Medium2)
             ELSE IF hint = PREF[9]
             THEN main_build_scale(
                      [s1 EXCEPT !.scale_str = Medium3,
                                 !.res = Real(GradeAt(3, 3))], Medium3)
             ELSE main_build_scale(s1, s1.scale_str)
        ELSE LET grad == IF s1.scale_str = Medium2 THEN grad0 + 2
                         ELSE IF s1.scale_str = Medium3 THEN grad0 + 4
                         ELSE grad0
                 rel1 == IF s1.scale_str \in MediumTokens THEN 8
                         ELSE Len(s1.scale_str)
             IN  main_close_window(
                     [s1 EXCEPT !.rel = rel1, !.res = Real(GradeAt(grad, rel1))])

main_no_idea_click(s) ==
    main_close_window([s EXCEPT !.res = Real(RInt(1)), !.rel = 0])

main_scale_choice_changed(s, t) ==
    main_build_scale([s EXCEPT !.scale_type_var = t], s.scale_str)

\* spin_up_click, spin_down_click and mouse_wheel: pass.
main_gradation(s) == s

main_get_result(s) == <<s.res, s.rel>>

InitMain ==
    /\ prog = "main"
    /\ dsi = form_show
    /\ mirror = form_show
    /\ cp = Idle
    /\ cp_mirror = Idle
    /\ calc = Idle
    /\ inp = Idle
    /\ last = Event("init", NoPanel, 0, Idle)
    /\ events = 0

MainPanelScaleClick ==
    /\ prog = "main"
    /\ ~dsi.closed
    /\ \E p \in dsi.panels :
          /\ dsi' = main_panel_scale_click(dsi, p)
          /\ mirror' = main_panel_scale_click(mirror, MirrorPanel(mirror, p))
          /\ last' = Event("panel_scale_click", p, 0, dsi)
    /\ UNCHANGED <<prog, cp, cp_mirror, calc, inp, events>>

MainScaleChoiceChanged ==
    /\ prog = "main"
    /\ ~dsi.closed
    /\ dsi.reverse > -1
    /\ \E t \in ScaleTypes :
          /\ dsi' = main_scale_choice_changed(dsi, t)
          /\ mirror' = main_scale_choice_changed(mirror, t)
          /\ last' = Event("scale_choice_changed", NoPanel, t, dsi)
    /\ UNCHANGED <<prog, cp, cp_mirror, calc, inp, events>>

\* <Button-4>, <Button-5> and <MouseWheel>.
MainGradation ==
    /\ prog = "main"
    /\ ~dsi.closed
    /\ \E op \in {"spin_up_click", "spin_down_click", "mouse_wheel"} :
          /\ dsi' = main_gradation(dsi)
          /\ mirror' = main_gradation(mirror)
          /\ last' = Event(op, NoPanel, 0, dsi)
    /\ UNCHANGED <<prog, cp, cp_mirror, calc, inp, events>>

\* The 'No idea' button and the Return key.
MainNoIdeaClick ==
    /\ prog = "main"
    /\ ~dsi.closed
    /\ dsi' = main_no_idea_click(dsi)
    /\ mirror' = main_no_idea_click(mirror)
    /\ last' = Event("no_idea_click", NoPanel, 0, dsi)
    /\ UNCHANGED <<prog, cp, cp_mirror, calc, inp, events>>

NextMain ==
    \/ MainPanelScaleClick
    \/ MainScaleChoiceChanged
    \/ MainGradation
    \/ MainNoIdeaClick

SpecMain == InitMain /\ [][NextMain]_vars

----------------------------------------------------------------------------
(* dynamic_scale_interface.py: the basic DynamicScaleInterface, in         *)
(* variables dsi and mirror.  Field res is self.result, rel is             *)
(* self.reliability and scale_type_var is the radio variable scale_var.    *)

\* Every gradation panel is red; the end panel is not kept in self.panels
\* but is clickable like the others.
basic_build_scale(s) ==
    IF s.scale_str = S0Token
    THEN [s EXCEPT !.panels = StartPanels]
    ELSE LET pins == {[hint |-> PREF[s.scale_str[idx]], bg |-> "red"] :
                         idx \in 1..Len(s.scale_str)}
             ends == IF s.reverse # -1
                     THEN {[hint |-> LESS_MORE[1 - s.reverse], bg |-> "#F0F0F0"]}
                     ELSE {}
         IN  [s EXCEPT !.panels = pins \cup ends]

basic_finalize_comparison(s) ==
    LET transformed == basic_integer_by_scale(s.scale_type, s.res.q)
    IN  [s EXCEPT !.res = IF s.reverse # -1
                          THEN IF s.reverse = 0 THEN Recip(transformed)
                               ELSE transformed
                          ELSE Real(RInt(1)),
                  !.rel = IF s.reverse # -1 THEN s.rel ELSE 0,
                  !.scale_type = IF s.reverse = -1 THEN 0
                                 ELSE s.scale_type_var,
                  !.closed = TRUE]

\* grad = 0; for i, char in enumerate(scale_str): first label match, i + 1.
BasicGradOf(scale_str, label) ==
    IF \E idx \in 1..Len(scale_str) : label = PREF[scale_str[idx]]
    THEN CHOOSE idx \in 1..Len(scale_str) :
            /\ label = PREF[scale_str[idx]]
            /\ \A j \in 1..(idx - 1) : label # PREF[scale_str[j]]
    ELSE 0

basic_on_scale_click(s, label) ==
    LET s1 == IF label \in {LESS_MORE[0], LESS_MORE[1]}
              THEN [s EXCEPT !.reverse = IF label = LESS_MORE[0] THEN 0 ELSE 1]
              ELSE s
        grad == BasicGradOf(s1.scale_str, label)
    IN  IF s1.scale_str = S0Token
        THEN basic_build_scale([s1 EXCEPT !.rel = 1, !.res = Real(Rat(11, 2)),
                                          !.scale_str = Coarse])
        ELSE IF s1.scale_str = Coarse
        THEN LET s2 == IF grad = 1
                       THEN [s1 EXCEPT !.scale_str = Medium1,
                                       !.res = Real(GradeAt(1, 3))]
                       ELSE IF grad = 2
                       THEN [s1 EXCEPT !.scale_str = Medium2,
                                       !.res = Real(GradeAt(2, 3))]
                       ELSE IF grad = 3
                       THEN [s1 EXCEPT !.scale_str = Medium3,
                                       !.res = Real(GradeAt(3, 3))]
                       ELSE s1
             IN  basic_build_scale([s2 EXCEPT !.rel = 3])
        ELSE IF grad > 0
        THEN basic_finalize_comparison(
                 [s1 EXCEPT !.rel = Len(s1.scale_str),
                            !.res = Real(GradeAt(grad, Len(s1.scale_str)))])
        ELSE basic_build_scale(s1)

basic_on_scale_type_change(s, t) ==
    basic_build_scale([s EXCEPT !.scale_type_var = t, !.scale_type = t])

basic_increase_gradations(s) ==
    IF s.reverse # -1 /\ Len(s.scale_str) < 8
    THEN basic_build_scale(
             [s EXCEPT !.scale_str = GRADUAL_SCALE[Len(s.scale_str) + 1],
                       !.rel = 1, !.res = Real(Rat(11, 2))])
    ELSE s

basic_decrease_gradations(s) ==
    IF s.reverse # -1 /\ Len(s.scale_str) > 2
    THEN basic_build_scale(
             [s EXCEPT !.scale_str = GRADUAL_SCALE[Len(s.scale_str) - 1],
                       !.rel = 1, !.res = Real(Rat(11, 2))])
    ELSE s

basic_on_mouse_wheel(s, delta) ==
    IF delta > 0 THEN basic_increase_gradations(s)
    ELSE basic_decrease_gradations(s)

basic_on_no_idea_click(s) == basic_finalize_comparison(s)

\* DynamicScaleInterface.__init__ and _setup_ui.
basic_setup_ui ==
    [reverse |-> -1, res |-> Real(RInt(1)), rel |-> 0, scale_str |-> S0Token,
     scale_type |-> 1, scale_type_var |-> 1, delay_wheel |-> 0,
     panels |-> StartPanels, closed |-> FALSE]

InitBasic ==
    /\ prog = "basic"
    /\ dsi = basic_setup_ui
    /\ mirror = basic_setup_ui
    /\ cp = Idle
    /\ cp_mirror = Idle
    /\ calc = Idle
    /\ inp = Idle
    /\ last = Event("init", NoPanel, 0, Idle)
    /\ events = 0

BasicOnScaleClick ==
    /\ prog = "basic"
    /\ ~dsi.closed
    /\ \E p \in dsi.panels :
          /\ dsi' = basic_on_scale_click(dsi, p.hint)
          /\ mirror' = basic_on_scale_click(mirror, Swap(p.hint))
          /\ last' = Event("on_scale_click", p, 0, dsi)
    /\ UNCHANGED <<prog, cp, cp_mirror, calc, inp, events>>

BasicOnScaleTypeChange ==
    /\ prog = "basic"
    /\ ~dsi.closed
    /\ \E t \in ScaleTypes :
          /\ dsi' = basic_on_scale_type_change(dsi, t)
          /\ mirror' = basic_on_scale_type_change(mirror, t)
          /\ last' = Event("on_scale_type_change", NoPanel, t, dsi)
    /\ UNCHANGED <<prog, cp, cp_mirror, calc, inp, events>>

BasicIncreaseGradations ==
    /\ prog = "basic"
    /\ ~dsi.closed
    /\ dsi' = basic_increase_gradations(dsi)
    /\ mirror' = basic_increase_gradations(mirror)
    /\ last' = Event("increase_gradations", NoPanel, 0, dsi)
    /\ UNCHANGED <<prog, cp, cp_mirror, calc, inp, events>>

BasicDecreaseGradations ==
    /\ prog = "basic"
    /\ ~dsi.closed
    /\ dsi' = basic_decrease_gradations(dsi)
    /\ mirror' = basic_decrease_gradations(mirror)
    /\ last' = Event("decrease_gradations", NoPanel, 0, dsi)
    /\ UNCHANGED <<prog, cp, cp_mirror, calc, inp, events>>

BasicOnMouseWheel ==
    /\ prog = "basic"
    /\ ~dsi.closed
    /\ \E delta \in WheelDeltas :
          /\ dsi' = basic_on_mouse_wheel(dsi, delta)
          /\ mirror' = basic_on_mouse_wheel(mirror, delta)
          /\ last' = Event("on_mouse_wheel", NoPanel, delta, dsi)
    /\ UNCHANGED <<prog, cp, cp_mirror, calc, inp, events>>

\* The 'No idea' button and the Return key.
BasicOnNoIdeaClick ==
    /\ prog = "basic"
    /\ ~dsi.closed
    /\ dsi' = basic_on_no_idea_click(dsi)
    /\ mirror' = basic_on_no_idea_click(mirror)
    /\ last' = Event("on_no_idea_click", NoPanel, 0, dsi)
    /\ UNCHANGED <<prog, cp, cp_mirror, calc, inp, events>>

NextBasic ==
    \/ BasicOnScaleClick
    \/ BasicOnScaleTypeChange
    \/ BasicIncreaseGradations
    \/ BasicDecreaseGradations
    \/ BasicOnMouseWheel
    \/ BasicOnNoIdeaClick

SpecBasic == InitBasic /\ [][NextBasic]_vars

----------------------------------------------------------------------------
(* gui/scales.py, and the loop of test_scales.test_scale over the labels   *)
(* of one scale, in variable calc.  Values and labels are sequences; the   *)
(* 0-based index i of the code is position i + 1.                          *)

all_labels ==
    <<"Equally", "Slightly", "Moderately", "Moderately+", "Strongly",
      "Strongly+", "Very strongly", "Very very strongly", "Extremely">>

\* label_indices, 0-based as in the code.
label_indices ==
    [g \in 3..9 |->
        CASE g = 3 -> <<0, 1, 4>>
          [] g = 4 -> <<0, 1, 2, 4>>
          [] g = 5 -> <<0, 1, 2, 3, 4>>
          [] g = 6 -> <<0, 1, 2, 3, 4, 5>>
          [] g = 7 -> <<0, 1, 2, 3, 4, 5, 6>>
          [] g = 8 -> <<0, 1, 2, 3, 4, 5, 6, 7>>
          [] g = 9 -> <<0, 1, 2, 3, 4, 5, 6, 7, 8>>]

get_progressive_labels(gradations) ==
    LET g == IF gradations \notin DOMAIN label_indices THEN 9 ELSE gradations
        indices == label_indices[g]
    IN  [k \in 1..Len(indices) |-> all_labels[indices[k] + 1]]

get_all_scale_names == <<"INTEGER", "BALANCED", "POWER", "MA_ZHENG", "DONEGAN">>

\* A subsampling that stops one value short, range(n - 1).
subsample_short(all_values, n) ==
    IF n = 9 THEN all_values
    ELSE [k \in 1..(n - 1) |-> all_values[((k - 1) * 8) \div (n - 1) + 1]]

\* [all_values[int(i * step)] for i in range(n)] with step = 8 / (n - 1);
\* for n in 3..8 the float product truncates to floor(8 i / (n - 1)).
subsample(all_values, n) ==
    IF n = 9 THEN all_values
    ELSE [k \in 1..n |-> all_values[((k - 1) * 8) \div (n - 1) + 1]]

integer_values(n) == subsample([k \in 1..9 |-> Real(RInt(k))], n)

balanced_values(n) == [i \in 1..n |-> Real(Rat(i, n + 1 - i))]

power_values(n) == [x \in 1..n |-> Pow9(Rat(x - 1, n - 1))]

ma_zheng_values(n) == subsample([k \in 1..9 |-> Real(Rat(9, 10 - k))], n)

donegan_values(n) ==
    subsample(<<Real(RInt(1)), Real(Rat(1132, 1000)), Real(Rat(1287, 1000)),
                Real(Rat(1477, 1000)), Real(Rat(1720, 1000)),
                Real(Rat(2060, 1000)), Real(Rat(2600, 1000)),
                Real(Rat(3732, 1000)), Real(RInt(9))>>, n)

\* Scale.__init__ of the class chosen by the factory; an unknown name
\* builds the integer scale.
get_scale(scale_name, gradations) ==
    IF gradations < 3 \/ gradations > 9
    THEN [exc |-> "ValueError"]
    ELSE [exc |-> "none",
          name |-> IF scale_name \in {get_all_scale_names[k] : k \in 1..5}
                   THEN scale_name ELSE "INTEGER",
          gradations |-> gradations,
          values |->
              CASE scale_name = "BALANCED" -> balanced_values(gradations)
                [] scale_name = "POWER" -> power_values(gradations)
                [] scale_name = "MA_ZHENG" -> ma_zheng_values(gradations)
                [] scale_name = "DONEGAN" -> donegan_values(gradations)
                [] OTHER -> integer_values(gradations),
          labels |-> get_progressive_labels(gradations)]

\* Whether get_value takes its fallback return 1.0 at this index.
out_of_range(scale, gradation_index) ==
    ~(0 <= gradation_index /\ gradation_index < Len(scale.values))

get_value(scale, gradation_index) ==
    IF out_of_range(scale, gradation_index) THEN Real(RInt(1))
    ELSE scale.values[gradation_index + 1]

unify(scale, gradation_index) ==
    Real(GradeAt(gradation_index + 1, Len(scale.values)))

ScaleNames == {get_all_scale_names[k] : k \in 1..5} \cup {"other"}

GradationInputs == 2..10

InitScales ==
    /\ prog = "scales"
    /\ \E name \in ScaleNames, g \in GradationInputs :
          calc = [pc |-> "call", scale_name |-> name, gradations |-> g]
    /\ dsi = Idle
    /\ mirror = Idle
    /\ cp = Idle
    /\ cp_mirror = Idle
    /\ inp = Idle
    /\ last = Event("init", NoPanel, 0, Idle)
    /\ events = 0

GetScale ==
    /\ prog = "scales"
    /\ calc.pc = "call"
    /\ LET scale == get_scale(calc.scale_name, calc.gradations)
       IN  calc' = IF scale.exc = "ValueError"
                   THEN [pc |-> "raised", scale_name |-> calc.scale_name,
                         gradations |-> calc.gradations]
                   ELSE [pc |-> "scale", scale_name |-> calc.scale_name,
                         gradations |-> calc.gradations, scale |-> scale,
                         i |-> -1, value |-> Real(RInt(1)),
                         unified |-> Real(RInt(1)), fallback |-> FALSE]
    /\ last' = Event("get_scale", NoPanel, calc.gradations, Idle)
    /\ UNCHANGED <<prog, dsi, mirror, cp, cp_mirror, inp, events>>

\* One turn of `for i, label in enumerate(scale.labels)`.
TestScaleLabel ==
    /\ prog = "scales"
    /\ calc.pc = "scale"
    /\ calc.i + 1 < Len(calc.scale.labels)
    /\ LET i == calc.i + 1
       IN  calc' = [calc EXCEPT !.i = i,
                                !.value = get_value(calc.scale, i),
                                !.unified = unify(calc.scale, i),
                                !.fallback = out_of_range(calc.scale, i)]
    /\ last' = Event("get_value", NoPanel, calc.i + 1, Idle)
    /\ UNCHANGED <<prog, dsi, mirror, cp, cp_mirror, inp, events>>

NextScales == GetScale \/ TestScaleLabel

SpecScales == InitScales /\ [][NextScales]_vars

----------------------------------------------------------------------------
(* Either elicitation front end.                                           *)

InitElicit == InitDSI \/ InitApp

NextElicit == NextDSI \/ NextApp

SpecElicit == InitElicit /\ [][NextElicit]_vars

----------------------------------------------------------------------------
(* Any one of the programs.                                                *)

Init ==
    \/ InitDSI
    \/ InitApp
    \/ InitCalc
    \/ InitRatio
    \/ InitConsistency
    \/ InitResults
    \/ InitScale
    \/ InitInput
    \/ InitMain
    \/ InitBasic
    \/ InitScales

Next ==
    \/ NextDSI
    \/ NextApp
    \/ NextCalc
    \/ NextRatio
    \/ NextConsistency
    \/ NextResults
    \/ NextScale
    \/ NextInput
    \/ NextMain
    \/ NextBasic
    \/ NextScales

Spec == Init /\ [][Next]_vars

----------------------------------------------------------------------------
(* Properties.                                                             *)

\* 1.5 + (x - 0.5) * 8 / k as the fraction (3k + 8(2x - 1)) / 2k.
ClaimGrade(x, k) == Rat(3 * k + 8 * (2 * x - 1), 2 * k)

\* The ratio a session emits for transformed value v in direction reverse.
Emitted(reverse, v) == IF reverse = 0 THEN Recip(v) ELSE v

One == Real(RInt(1))

\* Positions of a medium token that are final choices, and the others.
ActivePos(tok) ==
    CASE tok = Medium1 -> {1, 2, 3}
      [] tok = Medium2 -> {2, 3, 4}
      [] tok = Medium3 -> {3, 4}
GroupedPos(tok) == (1..Len(tok)) \ ActivePos(tok)

Offset(tok) ==
    CASE tok = Medium1 -> 0
      [] tok = Medium2 -> 2
      [] tok = Medium3 -> 4

\* The medium token of a bucket digit, and the bucket's place in '259'.
Sibling(digit) ==
    CASE digit = 2 -> Medium1
      [] digit = 5 -> Medium2
      [] digit = 9 -> Medium3
Bucket(digit) ==
    CASE digit = 2 -> 1
      [] digit = 5 -> 2
      [] digit = 9 -> 3

DsiClicked == prog = "complete" /\ last.op = "panel_scale_click"
AppClicked == prog = "app" /\ last.op = "panel_scale_click"

LastOf(seq) == seq[Len(seq)]

\* The last event recorded one more comparison in the panel.
AppRecorded ==
    /\ Len(cp.comparisons) = Len(last.pre.comparisons) + 1
    /\ cp.current_pair = last.pre.current_pair + 1
    /\ SubSeq(cp.comparisons, 1, Len(last.pre.comparisons))
          = last.pre.comparisons

\* C1: every matrix built by build_comparison_matrix is reciprocal,
\* M[i][j] * M[j][i] = 1 for all i, j, with M[i][i] = 1 on the diagonal.
C1_Reciprocity ==
    (prog = "calc" /\ calc.pc = "built") =>
        \A i \in 0..(calc.n - 1) :
            /\ calc.matrix[<<i, i>>] = One
            /\ \A j \in 0..(calc.n - 1) :
                  ProductIsOne(calc.matrix[<<i, j>>], calc.matrix[<<j, i>>])

\* C2: a session ended in direction Less emits the reciprocal of what the
\* same events emit with Less and More exchanged, in both front ends (for
\* the panel: every recorded ratio against the mirrored panel's).
C2_DirectionInversion ==
    /\ (prog = "complete" /\ dsi.closed) =>
          /\ mirror.closed
          /\ dsi.reverse = 0 => (mirror.reverse = 1
                                   /\ dsi.res = Recip(mirror.res))
          /\ dsi.reverse = 1 => (mirror.reverse = 0
                                   /\ mirror.res = Recip(dsi.res))
    /\ prog = "app" =>
          /\ cp.reverse = 0 <=> cp_mirror.reverse = 1
          /\ cp.reverse = 1 <=> cp_mirror.reverse = 0
          /\ Len(cp.comparisons) = Len(cp_mirror.comparisons)
          /\ \A k \in 1..Len(cp.comparisons) :
                /\ cp.comparisons[k][1] = cp_mirror.comparisons[k][1]
                /\ cp.comparisons[k][2] = cp_mirror.comparisons[k][2]
                /\ cp.comparisons[k][3] = Recip(cp_mirror.comparisons[k][3])

C2_Witness ==
    /\ prog = "complete" /\ dsi.closed /\ dsi.reverse = 0 /\ dsi.rel = 8
    /\ mirror.reverse = 1 /\ dsi.res # mirror.res

\* C3: the reliability get_result returns for an ended session is one of
\* 0, 1, ..., 8.
C3_ReliabilityRange ==
    (prog = "complete" /\ dsi.closed) => get_result(dsi)[2] \in 0..8

C3_Witness ==
    /\ prog = "complete" /\ dsi.closed /\ get_result(dsi)[2] = 7
    /\ last.op = "panel_scale_click"

\* C4 as stated: 'No idea' in any state ends the session with ratio 1.0,
\* reliability 0 and scale type none.
C4_NoIdeaDiscards ==
    (prog = "complete" /\ last.op = "no_idea_click") =>
        /\ dsi.closed
        /\ get_result(dsi) = <<One, 0, 0>>

\* C4 amended: 'No idea' ends the session in any state; with no direction
\* set it emits ratio 1.0, reliability 0 and scale type none; with a
\* direction set it emits the working value transformed by the selected
\* scale (inverted for Less), the working reliability and the selected
\* scale type.
C4_NoIdeaConfirms ==
    (prog = "complete" /\ last.op = "no_idea_click") =>
        /\ dsi.closed
        /\ last.pre.reverse = -1 => get_result(dsi) = <<One, 0, 0>>
        /\ last.pre.reverse > -1 =>
              get_result(dsi) =
                  <<Emitted(last.pre.reverse,
                            integer_by_scale(last.pre.scale_type_var,
                                             last.pre.res.q)),
                    last.pre.rel, last.pre.scale_type_var>>

C4_Witness ==
    /\ prog = "complete" /\ last.op = "no_idea_click"
    /\ last.pre.rel = 3 /\ last.pre.reverse = 0 /\ dsi.closed

\* C5: in a medium token a click on the active panel at position p ends
\* the session with reliability 8 and grade 1.5 + (p + off - 0.5) * 8 / 8,
\* off = 0, 2, 4 for '23459', '25679', '2589'; position 2 of '25679' gives
\* grade 5.  (The panel keeps the reliability only when it has finished.)
C5_MediumActiveClick ==
    /\ ClaimGrade(2 + Offset(Medium2), 8) = RInt(5)
    /\ (DsiClicked /\ last.pre.scale_str \in MediumTokens) =>
          \A p \in ActivePos(last.pre.scale_str) :
              last.panel.hint = PREF[last.pre.scale_str[p]] =>
                  /\ dsi.closed
                  /\ dsi.rel = 8
                  /\ dsi.res =
                        Emitted(last.pre.reverse,
                                integer_by_scale(
                                    last.pre.scale_type_var,
                                    ClaimGrade(p + Offset(last.pre.scale_str),
                                               8)))
    /\ (AppClicked /\ last.pre.scale_str \in MediumTokens) =>
          \A p \in ActivePos(last.pre.scale_str) :
              last.panel.hint = APP_PREF[last.pre.scale_str[p]] =>
                  /\ AppRecorded
                  /\ cp.finished => cp.rel = 8
                  /\ LastOf(cp.comparisons)[3] =
                        Emitted(last.pre.reverse,
                                app_integer_by_scale(
                                    last.pre.scale_type_var,
                                    ClaimGrade(p + Offset(last.pre.scale_str),
                                               8)))

C5_Witness ==
    /\ DsiClicked /\ last.pre.scale_str = Medium2
    /\ last.panel.hint = PREF[Medium2[2]]
    /\ dsi.closed /\ dsi.res = Real(RInt(5))

\* C6: in a medium token a click on a grouped position never ends the
\* session: it opens the sibling medium token of that digit and sets the
\* working value to the bucket's coarse value, for every scale type.
C6_GroupedClickJumps ==
    /\ (DsiClicked /\ last.pre.scale_str \in MediumTokens) =>
          \A p \in GroupedPos(last.pre.scale_str) :
              last.panel.hint = PREF[last.pre.scale_str[p]] =>
                  /\ ~dsi.closed
                  /\ dsi.scale_str = Sibling(last.pre.scale_str[p])
                  /\ dsi.res =
                        Real(ClaimGrade(Bucket(last.pre.scale_str[p]), 3))
    /\ (AppClicked /\ last.pre.scale_str \in MediumTokens) =>
          \A p \in GroupedPos(last.pre.scale_str) :
              last.panel.hint = APP_PREF[last.pre.scale_str[p]] =>
                  /\ cp.comparisons = last.pre.comparisons
                  /\ cp.current_pair = last.pre.current_pair
                  /\ cp.scale_str = Sibling(last.pre.scale_str[p])
                  /\ cp.res =
                        Real(ClaimGrade(Bucket(last.pre.scale_str[p]), 3))

\* An increase or decrease gradation action has just replaced the token.
DsiSpun ==
    /\ prog = "complete"
    /\ last.op \in {"spin_up_click", "spin_down_click", "mouse_wheel"}
    /\ dsi.scale_str # last.pre.scale_str

\* C7 as stated: once an increase/decrease action has selected gradation
\* count k in 2..8, a click on the panel at any position p of
\* GRADUAL_SCALE[k] ends the session with reliability k and grade
\* 1.5 + (p - 0.5) * 8 / k.
C7_FineClickAnyCount ==
    DsiSpun =>
        LET k == Len(dsi.scale_str)
        IN  /\ k \in 2..8
            /\ dsi.scale_str = GRADUAL_SCALE[k]
            /\ \A p \in 1..k :
                  \E panel \in dsi.panels :
                     /\ panel.hint = PREF[dsi.scale_str[p]]
                     /\ LET r == panel_scale_click(dsi, panel)
                        IN  /\ r.closed
                            /\ r.rel = k
                            /\ r.res =
                                  Emitted(dsi.reverse,
                                          integer_by_scale(dsi.scale_type_var,
                                                           ClaimGrade(p, k)))

FineCounts == {2, 4, 5, 6, 7, 8}

\* C7 amended: for every gradation count k in {2, 4, 5, 6, 7, 8} a click on
\* the panel at position p of GRADUAL_SCALE[k] ends the session with
\* reliability k and grade 1.5 + (p - 0.5) * 8 / k; such a token is shown
\* only after an increase/decrease action.  (For k = 3 the token is the
\* coarse token '259', whose panels open a medium token.)
C7_FineClick ==
    /\ DsiSpun =>
          /\ Len(dsi.scale_str) \in 2..8
          /\ dsi.scale_str = GRADUAL_SCALE[Len(dsi.scale_str)]
    /\ (prog = "complete" /\ ~dsi.closed /\ dsi.reverse > -1
          /\ dsi.scale_str \notin MediumTokens \cup {Coarse}) =>
          /\ Len(dsi.scale_str) \in FineCounts
          /\ dsi.scale_str = GRADUAL_SCALE[Len(dsi.scale_str)]
          /\ dsi.rel = 1
    /\ \A k \in FineCounts :
          (DsiClicked /\ last.pre.scale_str = GRADUAL_SCALE[k]) =>
              \A p \in 1..k :
                  last.panel.hint = PREF[GRADUAL_SCALE[k][p]] =>
                      /\ dsi.closed
                      /\ dsi.rel = k
                      /\ dsi.res =
                            Emitted(last.pre.reverse,
                                    integer_by_scale(last.pre.scale_type_var,
                                                     ClaimGrade(p, k)))

C7_Witness ==
    /\ DsiClicked /\ last.pre.scale_str = GRADUAL_SCALE[7]
    /\ last.panel.hint = PREF[GRADUAL_SCALE[7][4]]
    /\ dsi.closed /\ dsi.rel = 7

\* C8: in the coarse token '259' a click on the bucket at position p does
\* not end the session; it sets the working value to
\* 1.5 + (p - 0.5) * 8 / 3 and the working reliability to 3, and opens
\* '23459', '25679' or '2589' for p = 1, 2, 3.
C8_CoarseClick ==
    /\ (DsiClicked /\ last.pre.scale_str = Coarse) =>
          \A p \in 1..3 :
              last.panel.hint = PREF[Coarse[p]] =>
                  /\ ~dsi.closed
                  /\ dsi.res = Real(ClaimGrade(p, 3))
                  /\ dsi.rel = 3
                  /\ dsi.scale_str = <<Medium1, Medium2, Medium3>>[p]
                  /\ dsi.reverse = last.pre.reverse
    /\ (AppClicked /\ last.pre.scale_str = Coarse) =>
          \A p \in 1..3 :
              last.panel.hint = APP_PREF[Coarse[p]] =>
                  /\ cp.comparisons = last.pre.comparisons
                  /\ cp.current_pair = last.pre.current_pair
                  /\ ~cp.finished
                  /\ cp.res = Real(ClaimGrade(p, 3))
                  /\ cp.rel = 3
                  /\ cp.scale_str = <<Medium1, Medium2, Medium3>>[p]
                  /\ cp.reverse = last.pre.reverse

C8_Witness ==
    /\ DsiClicked /\ last.pre.scale_str = Coarse
    /\ last.panel.hint = PREF[Coarse[3]]
    /\ dsi.scale_str = Medium3 /\ dsi.rel = 3

\* C9: from S0 (direction unset, token '0') a click on Less or More sets
\* the direction to the clicked one, the working value to 5.5 and the
\* working reliability to 1, opens the coarse token '259' and does not end
\* the session.
C9_DirectionClick ==
    /\ (DsiClicked /\ last.pre.scale_str = S0Token) =>
          /\ last.pre.reverse = -1
          /\ last.panel.hint \in {"Less", "More"}
          /\ dsi.reverse = (IF last.panel.hint = "Less" THEN 0 ELSE 1)
          /\ dsi.res = Real(Rat(11, 2))
          /\ dsi.rel = 1
          /\ dsi.scale_str = Coarse
          /\ ~dsi.closed
    /\ (AppClicked /\ last.pre.scale_str = S0Token) =>
          /\ last.pre.reverse = -1
          /\ last.panel.hint \in {APP_LESS_MORE[0], APP_LESS_MORE[1]}
          /\ cp.reverse = (IF last.panel.hint = APP_LESS_MORE[0] THEN 0 ELSE 1)
          /\ cp.res = Real(Rat(11, 2))
          /\ cp.rel = 1
          /\ cp.scale_str = Coarse
          /\ cp.comparisons = last.pre.comparisons
          /\ cp.current_pair = last.pre.current_pair
          /\ ~cp.finished

C9_Witness ==
    /\ DsiClicked /\ last.pre.scale_str = S0Token
    /\ last.panel.hint = "Less" /\ dsi.reverse = 0

\* The last event was an increase (up) or decrease (~up) gradation action.
SpinEvent(up) ==
    \/ last.op = (IF up THEN "spin_up_click" ELSE "spin_down_click")
    \/ /\ last.op = "mouse_wheel"
       /\ last.pre.delay_wheel = 3
       /\ (last.arg > 0) = up

\* C10: with a direction set and the session not ended, an increase on a
\* token of length L < 8 (a decrease on one of length L > 2) replaces the
\* token by GRADUAL_SCALE[L + 1] (GRADUAL_SCALE[L - 1]), resets the working
\* reliability to 1 and the working value to 5.5, and leaves the session
\* open.
C10_SpinResets ==
    /\ prog = "complete" =>
          \A up \in BOOLEAN :
              LET L == Len(last.pre.scale_str)
              IN  (/\ SpinEvent(up)
                   /\ last.pre.reverse > -1
                   /\ IF up THEN L < 8 ELSE L > 2) =>
                      /\ dsi.scale_str =
                            GRADUAL_SCALE[IF up THEN L + 1 ELSE L - 1]
                      /\ dsi.rel = 1
                      /\ dsi.res = Real(Rat(11, 2))
                      /\ dsi.reverse = last.pre.reverse
                      /\ ~dsi.closed
    /\ prog = "app" =>
          \A up \in BOOLEAN :
              LET L == Len(last.pre.scale_str)
              IN  (/\ SpinEvent(up)
                   /\ last.pre.reverse > -1
                   /\ ~last.pre.finished
                   /\ IF up THEN L < 8 ELSE L > 2) =>
                      /\ cp.scale_str =
                            GRADUAL_SCALE[IF up THEN L + 1 ELSE L - 1]
                      /\ cp.rel = 1
                      /\ cp.res = Real(Rat(11, 2))
                      /\ cp.reverse = last.pre.reverse
                      /\ cp.comparisons = last.pre.comparisons
                      /\ cp.current_pair = last.pre.current_pair
                      /\ ~cp.finished

C10_Witness ==
    /\ prog = "complete" /\ last.op = "spin_up_click"
    /\ last.pre.scale_str = Medium1 /\ last.pre.rel = 3
    /\ dsi.scale_str = GRADUAL_SCALE[6] /\ dsi.rel = 1

\* The last event was an increase, a decrease or a mouse-wheel action.
GradationEvent ==
    last.op \in {"spin_up_click", "spin_down_click", "mouse_wheel"}

\* C11: while the direction is unset, increase, decrease and mouse-wheel
\* actions leave direction, token, working value and working reliability
\* unchanged.
C11_SpinFrameInS0 ==
    /\ (prog = "complete" /\ GradationEvent /\ last.pre.reverse = -1) =>
          /\ dsi.reverse = last.pre.reverse
          /\ dsi.scale_str = last.pre.scale_str
          /\ dsi.res = last.pre.res
          /\ dsi.rel = last.pre.rel
          /\ ~dsi.closed
    /\ (prog = "app" /\ GradationEvent /\ last.pre.reverse = -1) =>
          /\ cp.reverse = last.pre.reverse
          /\ cp.scale_str = last.pre.scale_str
          /\ cp.res = last.pre.res
          /\ cp.rel = last.pre.rel
          /\ cp.comparisons = last.pre.comparisons
          /\ cp.current_pair = last.pre.current_pair

C11_Witness ==
    /\ prog = "complete" /\ last.op = "mouse_wheel"
    /\ last.pre.delay_wheel = 3 /\ last.arg > 0
    /\ last.pre.reverse = -1 /\ dsi.scale_str = S0Token

FineTokens == {GRADUAL_SCALE[k] : k \in FineCounts}

\* C12: a fine token becomes the active token only through an increase or
\* decrease gradation action performed while a direction is set; no panel
\* click in S0, the coarse token or a medium token leads to a fine token.
C12_FineOnlyBySpin ==
    /\ (prog = "complete" /\ dsi.scale_str \in FineTokens
          /\ dsi.scale_str # last.pre.scale_str) =>
          /\ GradationEvent
          /\ last.pre.reverse > -1
    /\ (DsiClicked /\ last.pre.scale_str \in {S0Token, Coarse} \cup MediumTokens)
          => dsi.scale_str \notin FineTokens
    /\ (prog = "app" /\ cp.scale_str \in FineTokens
          /\ cp.scale_str # last.pre.scale_str) =>
          /\ GradationEvent
          /\ last.pre.reverse > -1
    /\ (AppClicked /\ last.pre.scale_str \in {S0Token, Coarse} \cup MediumTokens)
          => cp.scale_str \notin FineTokens

C12_Witness ==
    /\ prog = "complete" /\ last.op = "spin_down_click"
    /\ last.pre.scale_str = Medium2
    /\ dsi.scale_str = GRADUAL_SCALE[4]

\* The last event of the panel was Enter / the confirm button, and it
\* recorded a comparison.
AppConfirmed ==
    /\ prog = "app" /\ last.op = "confirm_current_selection"
    /\ AppRecorded

\* C13 as stated: no judgment with reliability 1 (direction chosen, working
\* value 5.5 and nothing else) is ever emitted, by 'No idea', Enter/confirm
\* or any other action.
C13_DirectionOnlyNeverEmitted ==
    /\ (prog = "complete" /\ dsi.closed) => dsi.rel # 1
    /\ AppConfirmed => ~(last.pre.reverse > -1 /\ last.pre.rel = 1)

\* C13 amended: no panel click, gradation or scale-type action emits a
\* judgment with reliability 1; only 'No idea' (Return) in the window and
\* Enter/confirm in the panel do, and with only a direction picked they
\* emit the transform of the working value 5.5, inverted for Less.
C13_DirectionOnlyByNoIdea ==
    /\ (prog = "complete" /\ dsi.closed /\ dsi.rel = 1) =>
          /\ last.op = "no_idea_click"
          /\ last.pre.reverse > -1
          /\ last.pre.rel = 1
          /\ dsi.res = Emitted(last.pre.reverse,
                               integer_by_scale(last.pre.scale_type_var,
                                                Rat(11, 2)))
    /\ (prog = "complete" /\ last.op = "no_idea_click"
          /\ last.pre.reverse > -1 /\ last.pre.rel = 1) =>
          dsi.closed /\ dsi.rel = 1
    /\ (prog = "app" /\ last.op # "init" /\ AppRecorded) =>
          last.op \in {"panel_scale_click", "confirm_current_selection"}
    /\ (AppClicked /\ AppRecorded) =>
          /\ last.pre.scale_str \notin {S0Token, Coarse}
          /\ cp.finished => cp.rel >= 2
    /\ (AppConfirmed /\ last.pre.reverse > -1 /\ last.pre.rel = 1) =>
          LastOf(cp.comparisons)[3] =
              Emitted(last.pre.reverse,
                      app_integer_by_scale(last.pre.scale_type_var,
                                           Rat(11, 2)))

C13_Witness ==
    /\ prog = "complete" /\ last.op = "no_idea_click"
    /\ last.pre.scale_str = Coarse /\ last.pre.rel = 1
    /\ dsi.closed /\ dsi.reverse = 1 /\ dsi.rel = 1

\* ratio > 1 exactly for More, < 1 exactly for Less, = 1 exactly for none.
RatioAgrees(ratio, reverse) ==
    /\ GtOne(ratio) <=> reverse = 1
    /\ LtOne(ratio) <=> reverse = 0
    /\ ratio = One <=> reverse = -1

\* C14: for every ended session the emitted ratio is greater than 1
\* exactly when the direction at termination is More, less than 1 exactly
\* when it is Less, and equal to 1 exactly when no direction was chosen
\* (for the panel: every recorded comparison).
C14_RatioMatchesDirection ==
    /\ (prog = "complete" /\ dsi.closed) =>
          RatioAgrees(get_result(dsi)[1], dsi.reverse)
    /\ (prog = "app" /\ last.op # "init" /\ AppRecorded) =>
          RatioAgrees(LastOf(cp.comparisons)[3], last.pre.reverse)

C14_Witness ==
    /\ prog = "complete" /\ dsi.closed /\ dsi.reverse = 0
    /\ dsi.scale_type_var = 5 /\ LtOne(dsi.res) /\ dsi.rel = 8

\* A working value that is a grade of the 1..9 scale.
InGradeRange(v) ==
    v.fam = "rat" /\ RLe(RInt(1), v.q) /\ RLe(v.q, RInt(9))

\* C15: in every reachable state with a direction set the working value
\* lies in [1, 9], and every grade that finalization passes to
\* integer_by_scale (by a final click or by 'No idea' / confirm) lies in
\* [1, 9].
C15_GradeInDomain ==
    /\ (prog = "complete" /\ dsi.reverse > -1 /\ ~dsi.closed) =>
          InGradeRange(dsi.res)
    /\ (DsiClicked /\ dsi.closed) =>
          LET s1 == select_direction(last.pre, last.panel.hint)
              g == final_selection(s1, last.panel.hint).res
          IN  /\ InGradeRange(g)
              /\ dsi.res = Emitted(dsi.reverse,
                                   integer_by_scale(dsi.scale_type, g.q))
    /\ (prog = "complete" /\ last.op = "no_idea_click"
          /\ last.pre.reverse > -1) =>
          /\ InGradeRange(last.pre.res)
          /\ dsi.res = Emitted(dsi.reverse,
                               integer_by_scale(dsi.scale_type, last.pre.res.q))
    /\ (prog = "app" /\ cp.reverse > -1) => InGradeRange(cp.res)
    /\ (AppClicked /\ AppRecorded) =>
          LET s1 == app_select_direction(last.pre, last.panel.hint)
              g == app_final_selection(s1, last.panel.hint).res
          IN  /\ InGradeRange(g)
              /\ LastOf(cp.comparisons)[3] =
                    Emitted(s1.reverse,
                            app_integer_by_scale(last.pre.scale_type_var, g.q))
    /\ (AppConfirmed /\ last.pre.reverse > -1) => InGradeRange(last.pre.res)

C15_Witness ==
    /\ DsiClicked /\ dsi.closed /\ last.pre.scale_str = Medium3
    /\ last.panel.hint = PREF[9] /\ dsi.scale_type = 2
    /\ dsi.reverse = 1 /\ dsi.res = Real(RInt(9))

\* (a, b) comes before (c, d) in lexicographic order.
LexLess(p, q) == p[1] < q[1] \/ (p[1] = q[1] /\ p[2] < q[2])

\* C16: for n items _generate_pairs returns exactly the n(n-1)/2 index
\* pairs (i, j) with 0 <= i < j < n, each once, in lexicographic order by
\* i then j, and total_pairs equals the length of that list.
C16_PairsComplete ==
    prog = "app" =>
        /\ Len(cp.pairs) = (cp.n * (cp.n - 1)) \div 2
        /\ cp.total_pairs = Len(cp.pairs)
        /\ \A k \in 1..Len(cp.pairs) :
              /\ 0 <= cp.pairs[k][1]
              /\ cp.pairs[k][1] < cp.pairs[k][2]
              /\ cp.pairs[k][2] < cp.n
        /\ \A k \in 1..(Len(cp.pairs) - 1) :
              LexLess(cp.pairs[k], cp.pairs[k + 1])
        /\ \A i \in 0..(cp.n - 1) : \A j \in (i + 1)..(cp.n - 1) :
              \E k \in 1..Len(cp.pairs) : cp.pairs[k] = <<i, j>>

C16_Witness ==
    /\ prog = "app" /\ cp.n = 3 /\ cp.total_pairs = 3
    /\ cp.pairs = <<<<0, 1>>, <<0, 2>>, <<1, 2>>>>

\* C17: on_complete is invoked only when the comparisons list holds
\* exactly one judgment for each generated pair, the k-th judgment being
\* for the k-th pair, and it is invoked at most once per ComparisonPanel.
C17_CompleteOnceWithAllPairs ==
    prog = "app" =>
        /\ Len(cp.on_complete) <= 1
        /\ cp.finished <=> Len(cp.on_complete) = 1
        /\ \A m \in 1..Len(cp.on_complete) :
              LET handed == cp.on_complete[m]
              IN  /\ Len(handed) = Len(cp.pairs)
                  /\ \A k \in 1..Len(handed) :
                        /\ handed[k][1] = cp.pairs[k][1]
                        /\ handed[k][2] = cp.pairs[k][2]

C17_Witness ==
    /\ prog = "app" /\ cp.n = 3 /\ cp.finished
    /\ Len(cp.on_complete) = 1 /\ Len(cp.on_complete[1]) = 3
    /\ last.op = "confirm_current_selection" /\ last.pre.finished
    /\ cp.exc = "IndexError"

\* Two judgments are for the same unordered pair of items.
SamePair(a, b) == {a[1], a[2]} = {b[1], b[2]}

RemoveAt(seq, k) == SubSeq(seq, 1, k - 1) \o SubSeq(seq, k + 1, Len(seq))

CalcBuilt == prog = "calc" /\ calc.pc = "built"

\* C18: if a judgment list holds two judgments for the same unordered pair
\* (given as (i, j) or (j, i)), build_comparison_matrix returns the same
\* matrix as for the list with the earlier of the two removed; the entry
\* of a pair is the ratio of its last judgment.
C18_LaterJudgmentReplaces ==
    CalcBuilt =>
        LET cs == calc.comparisons
        IN  /\ \A a \in 1..Len(cs) : \A b \in (a + 1)..Len(cs) :
                  SamePair(cs[a], cs[b]) =>
                      calc.matrix =
                          build_comparison_matrix(calc.n, RemoveAt(cs, a))
            /\ \A b \in 1..Len(cs) :
                  (\A c \in (b + 1)..Len(cs) : ~SamePair(cs[b], cs[c])) =>
                      calc.matrix[<<cs[b][1], cs[b][2]>>] = cs[b][3]

C18_Witness ==
    /\ CalcBuilt /\ Len(calc.comparisons) = 2
    /\ calc.comparisons[1] = <<0, 1, Real(RInt(3))>>
    /\ calc.comparisons[2] = <<1, 0, Real(RInt(3))>>
    /\ calc.matrix[<<0, 1>>] = Real(Rat(1, 3))

\* C19: a judgment (i, j, 0) is treated as ratio 1: after building, both
\* M[i][j] and M[j][i] equal 1 for that pair.
C19_ZeroTreatedAsOne ==
    CalcBuilt =>
        LET cs == calc.comparisons
        IN  \A b \in 1..Len(cs) :
               (/\ IsZero(cs[b][3])
                /\ \A c \in (b + 1)..Len(cs) : ~SamePair(cs[b], cs[c])) =>
                   /\ calc.matrix[<<cs[b][1], cs[b][2]>>] = One
                   /\ calc.matrix[<<cs[b][2], cs[b][1]>>] = One

\* build_comparison_matrix has been called.
CalcCalled == prog = "calc" /\ last.op = "build_comparison_matrix"

HasDuplicatePair(cs) ==
    \E a \in 1..Len(cs) : \E b \in (a + 1)..Len(cs) : SamePair(cs[a], cs[b])

IndicesInRange(n, cs) ==
    \A k \in 1..Len(cs) : cs[k][1] \in 0..(n - 1) /\ cs[k][2] \in 0..(n - 1)

\* C20 as stated: a judgment list with two judgments for one pair is
\* rejected: an error is reported and no matrix is returned.
C20_DuplicateRejected ==
    (CalcCalled /\ HasDuplicatePair(calc.comparisons)) =>
        calc.pc = "raised" /\ calc.matrix = <<>>

\* C20 amended: a judgment list with two judgments for one pair is accepted
\* silently: no error is reported and the n x n matrix is returned with the
\* later judgment in place; the only error reported to the caller is the
\* IndexError of an index outside 0..n-1.
C20_DuplicateAccepted ==
    CalcCalled =>
        LET cs == calc.comparisons
        IN  /\ (HasDuplicatePair(cs) /\ IndicesInRange(calc.n, cs)) =>
                  /\ calc.pc = "built"
                  /\ DOMAIN calc.matrix
                        = (0..(calc.n - 1)) \X (0..(calc.n - 1))
                  /\ \A a \in 1..Len(cs) : \A b \in (a + 1)..Len(cs) :
                        (/\ SamePair(cs[a], cs[b])
                         /\ \A c \in (b + 1)..Len(cs) : ~SamePair(cs[b], cs[c]))
                            => calc.matrix[<<cs[b][1], cs[b][2]>>] = cs[b][3]
            /\ calc.pc = "raised" =>
                  (~IndicesInRange(calc.n, cs) /\ calc.matrix = <<>>)

C20_Witness ==
    /\ CalcCalled /\ calc.pc = "built" /\ Len(calc.comparisons) = 2
    /\ calc.comparisons[1] = <<0, 1, Real(Rat(1, 2))>>
    /\ calc.comparisons[2] = <<0, 1, Real(RInt(3))>>
    /\ calc.matrix[<<0, 1>>] = Real(RInt(3))

\* A text with a character that is not blank.
NonBlank(text) == \E k \in 1..Len(text) : text[k] # " "

\* A name as on_next receives it: not empty, no blank at either end.
CleanName(text) ==
    text # <<>> /\ Head(text) # " " /\ text[Len(text)] # " "

Validated == prog = "input" /\ last.op = "validate_and_next"

\* C21: on_next is called only with at least 2 alternatives whose stripped
\* names are non-empty and pairwise distinct; with fewer than 2 names or a
\* repeated name an error is shown and on_next is not called.
C21_InputValidated ==
    /\ prog = "input" =>
          /\ Len(inp.on_next) <= 1
          /\ \A m \in 1..Len(inp.on_next) :
                LET names == inp.on_next[m]
                IN  /\ Len(names) >= 2
                    /\ \A k \in 1..Len(names) : CleanName(names[k])
                    /\ \A k \in 1..Len(names) : \A l \in 1..Len(names) :
                          k # l => names[k] # names[l]
    /\ Validated =>
          LET typed == {k \in 1..Len(last.pre.entries) :
                           NonBlank(last.pre.entries[k])}
              repeated == \E k \in typed : \E l \in typed :
                              /\ k # l
                              /\ strip(last.pre.entries[k])
                                    = strip(last.pre.entries[l])
          IN  IF Cardinality(typed) < 2 \/ repeated
              THEN /\ inp.error # ""
                   /\ inp.on_next = <<>>
                   /\ inp.shown
              ELSE /\ inp.error = ""
                   /\ Len(inp.on_next) = 1
                   /\ Len(inp.on_next[1]) = Cardinality(typed)

C21_Witness ==
    /\ Validated
    /\ last.pre.entries = <<<<" ", "a">>, <<"a", " ">>, <<"a", "a">>>>
    /\ inp.error = "names must be unique" /\ inp.on_next = <<>>

RatioReturned == prog = "ratio" /\ calc.pc = "returned"

\* The Random Index table as the claim lists it, in hundredths: sizes 3..15,
\* and 1.49 above 15.
ClaimRI(n) ==
    IF n <= 15
    THEN <<58, 90, 112, 124, 132, 141, 145, 149, 151, 148, 156, 157,
           159>>[n - 2]
    ELSE 149

\* C22: calculate_consistency_ratio(CI, n) returns 0 for every n <= 2
\* whatever CI is, and CI / RI(n) for n > 2, RI(n) being the listed table
\* value for 3 <= n <= 15 and 1.49 for every n > 15.
C22_RatioByTable ==
    RatioReturned =>
        IF calc.n <= 2 THEN calc.CR = Real(RInt(0))
        ELSE calc.CR = FDiv(calc.CI, Real(Rat(ClaimRI(calc.n), 100)))

C22_Witness ==
    /\ RatioReturned
    /\ calc.n > 15
    /\ calc.CI = Real(RInt(2))
    /\ calc.CR = Real(Rat(200, 149))

ConsistencyReturned == prog = "consistency" /\ calc.pc = "returned"

\* v <= 0.10 for a float64 v
AtMostTenth(v) ==
    \/ v = NegInf
    \/ v.fam = "rat" /\ 10 * v.q.n <= v.q.d

ReviewTexts ==
    {"CR exceeds the threshold", "review the pairwise comparisons",
     "find the most inconsistent pairs"}

\* C23: check_consistency returns is_consistent = true exactly when
\* CR <= 0.10; its recommendations are never empty: exactly one confirmation
\* string when consistent, review-guidance strings when inconsistent.
C23_VerdictAndRecommendations ==
    ConsistencyReturned =>
        LET r == calc.consistency
        IN  /\ r.is_consistent <=> AtMostTenth(r.CR)
            /\ r.recommendations # <<>>
            /\ r.is_consistent =>
                  /\ Len(r.recommendations) = 1
                  /\ r.recommendations[1].text = "judgments are consistent"
            /\ ~r.is_consistent =>
                  \A k \in 1..Len(r.recommendations) :
                      r.recommendations[k].text \in ReviewTexts

C23_Witness ==
    /\ ConsistencyReturned
    /\ calc.n = 3
    /\ calc.consistency.is_consistent
    /\ calc.consistency.CR = Real(Rat(445, 7308))

\* C24: a numerical failure (a zero weight, a non-finite lambda_max, CI or
\* CR) is an error outcome distinct from a verdict: check_consistency never
\* returns an ordinary report with is_consistent = false and the review
\* recommendations for a non-finite CR.
C24_NumericalFailureIsError ==
    ConsistencyReturned =>
        LET r == calc.consistency
        IN  ~isfinite(r.CR) =>
               ~(/\ ~r.is_consistent
                 /\ \E k \in 1..Len(r.recommendations) :
                       r.recommendations[k].text
                           = "review the pairwise comparisons")

ResultsAt(pcs) == prog = "results" /\ calc.pc \in pcs

\* A positive reciprocal n x n matrix.
PositiveReciprocal(matrix, n) ==
    \A i \in 0..(n - 1) : \A j \in 0..(n - 1) :
        /\ matrix[<<i, j>>].q.n > 0
        /\ RMul(matrix[<<i, j>>].q, matrix[<<j, i>>].q) = RInt(1)

RECURSIVE SumOf(_, _)
SumOf(w, k) == IF k = 0 THEN RInt(0) ELSE RAdd(SumOf(w, k - 1), w[k - 1].q)

\* n finite weights, none negative, with sum 1.
Normalised(w, n) ==
    /\ DOMAIN w = 0..(n - 1)
    /\ \A i \in 0..(n - 1) : w[i].fam = "rat" /\ w[i].q.n >= 0
    /\ SumOf(w, n) = RInt(1)

\* C25: for a valid (positive reciprocal) comparison matrix,
\* calculate_weights_eigenvector and calculate_weights_geometric_mean each
\* return n weights that are all >= 0 and sum to 1.
C25_WeightsNormalised ==
    /\ (/\ ResultsAt({"eigenvector", "geometric_mean", "checked"})
        /\ PositiveReciprocal(calc.matrix, calc.n))
          => Normalised(calc.weights_ev, calc.n)
    /\ (/\ ResultsAt({"geometric_mean", "checked"})
        /\ PositiveReciprocal(calc.matrix, calc.n))
          => Normalised(calc.weights_gm, calc.n)

C25_Witness ==
    /\ ResultsAt({"geometric_mean"})
    /\ calc.n = 3
    /\ PositiveReciprocal(calc.matrix, calc.n)
    /\ calc.weights_ev[0] = Real(Rat(2, 3))
    /\ calc.weights_ev[2] = Real(Rat(1, 15))
    /\ calc.weights_gm[0] = Real(Rat(41, 62))
    /\ calc.weights_gm[2] = Real(Rat(4, 62))

KnownExample ==
    <<<<0, 1, Real(RInt(3))>>, <<0, 2, Real(RInt(7))>>,
      <<1, 2, Real(RInt(5))>>>>

KnownMatrix ==
    [c \in (0..2) \X (0..2) |->
        Real(<<<<RInt(1), RInt(3), RInt(7)>>,
               <<Rat(1, 3), RInt(1), RInt(5)>>,
               <<Rat(1, 7), Rat(1, 5), RInt(1)>>>>[c[1] + 1][c[2] + 1])]

Decreasing(w) == RLt(w[1].q, w[0].q) /\ RLt(w[2].q, w[1].q)

\* C28: for 3 items with judgments (0,1,3), (0,2,7), (1,2,5) the matrix
\* built is [[1,3,7],[1/3,1,5],[1/7,1/5,1]], the derived weights are
\* ordered item0 > item1 > item2 (ranks 1, 2, 3), and check_consistency
\* reports a finite, non-negative CR.
C28_KnownExample ==
    (prog = "results" /\ calc.n = 3 /\ calc.comparisons = KnownExample) =>
        /\ calc.pc # "input" => calc.matrix = KnownMatrix
        /\ calc.pc \in {"eigenvector", "geometric_mean", "checked"} =>
               Decreasing(calc.weights_ev)
        /\ calc.pc \in {"geometric_mean", "checked"} =>
               Decreasing(calc.weights_gm)
        /\ calc.pc = "checked" =>
               /\ calc.ranks = <<1, 2, 3>>
               /\ isfinite(calc.consistency.CR)
               /\ calc.consistency.CR.q.n >= 0

C28_Witness ==
    /\ prog = "results"
    /\ calc.pc = "checked"
    /\ calc.comparisons = KnownExample
    /\ calc.consistency.CR = Real(Rat(445, 7308))

ScaleCalled(k) == prog = "scale" /\ Len(calc.result) >= k

\* C26: each of the five scale transforms (Integer, Balanced, Power,
\* Ma-Zheng, Donegan-Dodd-McMaster) maps grade 1 to ratio 1.
C26_GradeOneIsOne ==
    \A k \in 1..2 :
        (ScaleCalled(k) /\ calc.data[k] = RInt(1)) =>
            calc.result[k] = Real(RInt(1))

C26_Witness ==
    /\ ScaleCalled(2)
    /\ calc.interface = "app"
    /\ calc.scale_type = 5
    /\ calc.data = <<RInt(1), RInt(9)>>
    /\ calc.result[1] = Real(RInt(1))

\* The x of a value 9^x: powers of 3 are kept as rationals.
Log9(v) ==
    IF v.fam = "pow" THEN v.q
    ELSE Rat(CHOOSE m \in -4..4 :
                 v.q = IF m >= 0 THEN Rat(IPow(3, m), 1)
                       ELSE Rat(1, IPow(3, -m)),
             2)

\* The x of a value exp(atanh(x * sqrt(3))): 1 is kept as a rational.
DoddArg(v) == IF v.fam = "dodd" THEN v.q ELSE RInt(0)

\* a < b for two values of one transform; 9^x and exp(atanh(x * sqrt(3)))
\* (for x * sqrt(3) < 1) increase with x.
Less(scale_type, a, b) ==
    CASE scale_type = 3 -> RLt(Log9(a), Log9(b))
      [] scale_type = 5 ->
            /\ 3 * DoddArg(b).n * DoddArg(b).n < DoddArg(b).d * DoddArg(b).d
            /\ RLt(DoddArg(a), DoddArg(b))
      [] OTHER -> RLt(a.q, b.q)

\* C27: each of the five scale transforms is strictly increasing on the
\* grades of [1, 9]: f(g1) < f(g2) for all grades g1 < g2 of that range.
C27_StrictlyIncreasing ==
    (ScaleCalled(2) /\ RLt(calc.data[1], calc.data[2])) =>
        Less(calc.scale_type, calc.result[1], calc.result[2])

C27_Witness ==
    /\ ScaleCalled(2)
    /\ calc.interface = "basic"
    /\ calc.scale_type = 5
    /\ calc.data = <<Rat(17, 6), RInt(9)>>
    /\ Less(5, calc.result[1], calc.result[2])

\* The session of the panel is in S0.
AppInS0(s) ==
    /\ s.reverse = -1
    /\ s.scale_str = S0Token
    /\ s.res = Real(RInt(1))
    /\ s.rel = 0

\* The k-th judgment of the list is for the k-th pair, for every pair
\* before the current one, and there is no other judgment.
OneJudgmentPerPair(s) ==
    /\ Len(s.comparisons) = s.current_pair
    /\ \A m \in 1..Len(s.comparisons) :
          <<s.comparisons[m][1], s.comparisons[m][2]>> = s.pairs[m]

\* C29: _go_back at pair index k > 0 discards the whole judgment recorded
\* for pair k-1 and restarts that pair from S0, leaving the judgments of
\* pairs 0..k-2 as they were, so that after pair k-1 is confirmed again the
\* list holds exactly one judgment for it and the earlier ones unchanged;
\* at k = 0 _go_back changes nothing.
C29_GoBackReplaces ==
    prog = "app" =>
        /\ OneJudgmentPerPair(cp)
        /\ last.op = "go_back" =>
              IF last.pre.current_pair > 0
              THEN /\ cp.current_pair = last.pre.current_pair - 1
                   /\ cp.comparisons
                         = SubSeq(last.pre.comparisons, 1,
                                  last.pre.current_pair - 1)
                   /\ AppInS0(cp)
              ELSE cp = last.pre
        /\ (last.op # "init" /\ last.op # "go_back") =>
              \/ cp.comparisons = last.pre.comparisons
              \/ /\ AppRecorded
                 /\ LastOf(cp.comparisons)[1] = cp.pairs[cp.current_pair][1]
                 /\ LastOf(cp.comparisons)[2] = cp.pairs[cp.current_pair][2]

C29_Witness ==
    /\ prog = "app" /\ cp.n = 3
    /\ last.op = "go_back"
    /\ last.pre.current_pair = 2 /\ last.pre.reverse = 1
    /\ cp.current_pair = 1 /\ Len(cp.comparisons) = 1
    /\ AppInS0(cp)

\* C30: after a judgment is recorded for any pair other than the last, the
\* session for the next pair starts in S0: direction unset, token '0',
\* working value 1.0, working reliability 0, with the two direction panels
\* shown; nothing of the previous pair's session (direction, token,
\* working value, working reliability) carries over.
C30_NextPairStartsInS0 ==
    (prog = "app" /\ last.op # "init" /\ AppRecorded /\ ~cp.finished) =>
        /\ AppInS0(cp)
        /\ cp.panels = AppStartPanels
        /\ cp.scale_type_id = 1
        /\ AppInS0(cp_mirror)

C30_Witness ==
    /\ prog = "app" /\ last.op = "panel_scale_click"
    /\ AppRecorded /\ ~cp.finished
    /\ last.pre.reverse = 0
    /\ last.pre.scale_str = GRADUAL_SCALE[4]
    /\ last.pre.rel = 1
    /\ AppInS0(cp)

\* The coarse value of the bucket of a Medium token, as the claim gives it:
\* 1.5 + 0.5 * 8 / 3, 5.5 and 1.5 + 2.5 * 8 / 3.
CoarseValueOf(token) ==
    CASE token = Medium1 -> Real(Rat(17, 6))
      [] token = Medium2 -> Real(Rat(11, 2))
      [] token = Medium3 -> Real(Rat(49, 6))

\* C34: whenever a Medium token is the active token of a session in
\* progress (after any clicks, sideways jumps, spins and direction toggles)
\* the working reliability is 3 and the working value is the coarse value
\* of that token's bucket.
C34_MediumCarriesCoarseValue ==
    /\ (prog = "complete" /\ ~dsi.closed /\ dsi.scale_str \in MediumTokens) =>
          dsi.rel = 3 /\ dsi.res = CoarseValueOf(dsi.scale_str)
    /\ (prog = "app" /\ ~cp.finished /\ cp.scale_str \in MediumTokens) =>
          cp.rel = 3 /\ cp.res = CoarseValueOf(cp.scale_str)

C34_Witness ==
    /\ DsiClicked /\ ~dsi.closed
    /\ last.pre.scale_str = Medium1 /\ dsi.scale_str = Medium3
    /\ dsi.reverse = 0
    /\ dsi.res = Real(Rat(49, 6)) /\ dsi.rel = 3

\* The last click was on the Less/More indicator of a session with a
\* direction set.
DsiIndicatorClicked ==
    /\ DsiClicked
    /\ last.pre.reverse > -1
    /\ last.panel.hint \in {LESS_MORE[0], LESS_MORE[1]}
AppIndicatorClicked ==
    /\ AppClicked
    /\ last.pre.reverse > -1
    /\ last.panel.hint \in {APP_LESS_MORE[0], APP_LESS_MORE[1]}

C36_MediumFinalIsLabelledDigit ==
    /\ (DsiClicked /\ last.pre.scale_str \in MediumTokens /\ dsi.closed) =>
          \A p \in 1..Len(last.pre.scale_str) :
              last.panel.hint = PREF[last.pre.scale_str[p]] =>
                  dsi.res =
                      Emitted(last.pre.reverse,
                              integer_by_scale(
                                  last.pre.scale_type_var,
                                  RInt(last.pre.scale_str[p])))
    /\ (AppClicked /\ last.pre.scale_str \in MediumTokens /\ AppRecorded) =>
          \A p \in 1..Len(last.pre.scale_str) :
              last.panel.hint = APP_PREF[last.pre.scale_str[p]] =>
                  LastOf(cp.comparisons)[3] =
                      Emitted(last.pre.reverse,
                              app_integer_by_scale(
                                  last.pre.scale_type_var,
                                  RInt(last.pre.scale_str[p])))

\* C37: in the comparison panel, after any sequence of final selections,
\* confirm/Enter and back actions, the list holds as many judgments as the
\* index of the current pair, the index stays within 0..total_pairs, and
\* the k-th judgment carries the indices of the k-th pair.
C37_JudgmentsFollowPairs ==
    prog = "app" =>
        /\ Len(cp.comparisons) = cp.current_pair
        /\ 0 <= cp.current_pair
        /\ cp.current_pair <= cp.total_pairs
        /\ \A k \in 1..Len(cp.comparisons) :
              /\ k <= Len(cp.pairs)
              /\ cp.comparisons[k][1] = cp.pairs[k][1]
              /\ cp.comparisons[k][2] = cp.pairs[k][2]

C37_Witness ==
    /\ prog = "app" /\ cp.n = 3
    /\ last.op = "go_back"
    /\ Len(last.pre.comparisons) = 2
    /\ last.pre.comparisons[2][3] = One
    /\ cp.current_pair = 1
    /\ cp.comparisons = <<<<0, 1, Real(RInt(3))>>>>

\* C38: once the comparison panel has finished, a later Enter or
\* mouse-wheel event delivered through bind_all is inert: it reads no
\* pairs[current_pair] out of range, leaves current_pair and comparisons
\* as they were and does not call on_complete again.
C38_LateEventsInert ==
    (/\ prog = "app"
     /\ last.op \in {"confirm_current_selection", "mouse_wheel"}
     /\ last.pre.finished) =>
        /\ cp.exc # "IndexError"
        /\ cp.current_pair = last.pre.current_pair
        /\ cp.comparisons = last.pre.comparisons
        /\ cp.on_complete = last.pre.on_complete

\* What the fourth wheel event of a group does to session s0, giving s1:
\* an increase for a positive delta and a decrease otherwise, where the
\* gradation action is allowed.
WheelActs(s0, s1, delta) ==
    /\ s1.delay_wheel = 0
    /\ (delta > 0 /\ s0.reverse > -1 /\ Len(s0.scale_str) < 8) =>
          /\ s1.scale_str = GRADUAL_SCALE[Len(s0.scale_str) + 1]
          /\ s1.rel = 1 /\ s1.res = Real(Rat(11, 2))
    /\ (delta < 0 /\ s0.reverse > -1 /\ Len(s0.scale_str) > 2) =>
          /\ s1.scale_str = GRADUAL_SCALE[Len(s0.scale_str) - 1]
          /\ s1.rel = 1 /\ s1.res = Real(Rat(11, 2))

\* C39: the wheel handler counts events in delay_wheel: of every four
\* consecutive wheel events the first three change the counter only and
\* the fourth resets it and performs the increase or decrease action
\* chosen by the sign of delta.
C39_WheelActsEveryFourth ==
    /\ (prog = "complete") =>
          /\ dsi.delay_wheel \in 0..3
          /\ last.op = "mouse_wheel" =>
                IF last.pre.delay_wheel < 3
                THEN dsi = [last.pre EXCEPT
                               !.delay_wheel = last.pre.delay_wheel + 1]
                ELSE WheelActs(last.pre, dsi, last.arg)
    /\ (prog = "app") =>
          /\ cp.delay_wheel \in 0..3
          /\ last.op = "mouse_wheel" =>
                IF last.pre.delay_wheel < 3
                THEN cp = [last.pre EXCEPT
                              !.delay_wheel = last.pre.delay_wheel + 1]
                ELSE WheelActs(last.pre, cp, last.arg)

C39_Witness ==
    /\ prog = "complete" /\ last.op = "mouse_wheel"
    /\ last.pre.delay_wheel = 3 /\ last.arg < 0
    /\ last.pre.scale_str = Medium1
    /\ dsi.delay_wheel = 0
    /\ dsi.scale_str = GRADUAL_SCALE[4]

\* The tokens a session can show once a direction is set.
DirectedTokens == {GRADUAL_SCALE[k] : k \in 2..8} \cup MediumTokens \cup {Coarse}

\* The last event was an increase (up) or decrease action on session s0
\* giving s1, and it changed no session variable (the wheel's own counter
\* apart).
SpinInert(up, s0, s1) ==
    SpinEvent(up) =>
        IF last.op = "mouse_wheel" THEN s1 = [s0 EXCEPT !.delay_wheel = 0]
        ELSE s1 = s0

\* C40: whenever a direction is set the active token is '259', a medium
\* token or an entry of GRADUAL_SCALE, so its length is in 2..8 and the
\* lookups GRADUAL_SCALE[len + 1] and GRADUAL_SCALE[len - 1] of the
\* gradation actions stay inside the table: an increase at length 8 and a
\* decrease at length 2 change no session variable.
C40_TokenLengthInRange ==
    /\ (prog = "complete" /\ dsi.reverse > -1) =>
          /\ dsi.scale_str \in DirectedTokens
          /\ Len(dsi.scale_str) \in 2..8
    /\ (prog = "complete" /\ last.op # "init"
          /\ Len(last.pre.scale_str) = 8) => SpinInert(TRUE, last.pre, dsi)
    /\ (prog = "complete" /\ last.op # "init"
          /\ Len(last.pre.scale_str) = 2) => SpinInert(FALSE, last.pre, dsi)
    /\ (prog = "app" /\ cp.reverse > -1) =>
          /\ cp.scale_str \in DirectedTokens
          /\ Len(cp.scale_str) \in 2..8
    /\ (prog = "app" /\ last.op # "init"
          /\ Len(last.pre.scale_str) = 8) => SpinInert(TRUE, last.pre, cp)
    /\ (prog = "app" /\ last.op # "init"
          /\ Len(last.pre.scale_str) = 2) => SpinInert(FALSE, last.pre, cp)

C40_Witness ==
    /\ prog = "complete" /\ last.op = "spin_up_click"
    /\ last.pre.reverse > -1
    /\ last.pre.scale_str = GRADUAL_SCALE[8]
    /\ dsi.scale_str = GRADUAL_SCALE[8]

\* The last event of the main.py window was a final selection.
MainFinalSelection ==
    /\ prog = "main" /\ last.op = "panel_scale_click"
    /\ dsi.closed

\* C31: in main.py the result returned by get_result after a final
\* selection made with direction Less is the reciprocal of the result
\* returned after the same selection made with direction More.
C31_MainDirectionInversion ==
    (MainFinalSelection /\ dsi.reverse = 0) =>
        /\ mirror.closed /\ mirror.reverse = 1
        /\ main_get_result(dsi)[1] = Recip(main_get_result(mirror)[1])

\* C32: in dynamic_scale_interface.py a final selection made while a
\* medium token is active ends the session with reliability 8.
C32_BasicMediumFinalReliability ==
    (/\ prog = "basic" /\ last.op = "on_scale_click"
     /\ last.pre.scale_str \in MediumTokens
     /\ dsi.closed) =>
        dsi.rel = 8

\* C33: for every scale family of get_all_scale_names and every gradation
\* count n in 3..9, get_scale returns a scale with exactly n values and
\* exactly n labels, so the loop over its labels that calls get_value(i)
\* and unify(i) never takes get_value's out-of-range fallback.
C33_ScaleHasNValuesAndLabels ==
    (prog = "scales" /\ calc.pc = "scale") =>
        /\ calc.gradations \in 3..9
        /\ calc.scale.gradations = calc.gradations
        /\ Len(calc.scale.values) = calc.gradations
        /\ Len(calc.scale.labels) = calc.gradations
        /\ ~calc.fallback
        /\ calc.i >= 0 => calc.value = calc.scale.values[calc.i + 1]

C33_Witness ==
    /\ prog = "scales" /\ calc.pc = "scale"
    /\ calc.scale_name = "MA_ZHENG" /\ calc.gradations = 4
    /\ calc.i = 3
    /\ calc.value = Real(RInt(9))
    /\ calc.unified = Real(Rat(17, 2))
    /\ calc.scale.labels[4] = "Strongly"

====
